---- MODULE Spec2Model ----
(***************************************************************************)
(* Route construction engine of centr_invest_travel_support                *)
(* (backend/route_logic.py, backend/ics_utils.py).                         *)
(*                                                                         *)
(* Conventions of the model                                                *)
(*  - A coordinate (lat, lon) is a pair of whole metres north / east of a  *)
(*    reference corner of the city; haversine_km is the distance between   *)
(*    two such points in whole metres (rounded up, so that it is a         *)
(*    metric on the integers).                                             *)
(*  - A datetime is the number of minutes since 00:00 of the trip date     *)
(*    (the schedule never carries seconds); a clock time is a minute of    *)
(*    the day.                                                             *)
(*  - A Python object is a record with a field id (its identity); two      *)
(*    objects are == when they agree on every other field.                 *)
(*  - A score is a fixed-point number (8 decimals).                        *)
(*  - Text is a sequence of one-character strings; the module is ASCII,    *)
(*    so Cyrillic literals of the source are transliterated.               *)
(***************************************************************************)
EXTENDS Integers, Sequences, FiniteSets, TLC

\* ---------------------------------------------------------------- bounds

\* Number of catalogue places a request may draw its candidate list from.
NumPlaces == 8
\* Number of seconds the wall clock may advance between two exports.
MaxClock == 1

\* ------------------------------------------------------ program constants

MIN_TRAVEL_MINUTES == 8
\* DEFAULT_START_TIME = time(10, 0), as a minute of the day.
DEFAULT_START_TIME == 600
MAX_STOPS == 7
CANDIDATE_POOL_MULTIPLIER == 3
\* W_INTEREST, W_PROXIMITY, W_QUALITY = 0.55, 0.30, 0.15 in hundredths.
W_INTEREST == 55
W_PROXIMITY == 30
W_QUALITY == 15
\* WALK_KM_THRESHOLD = 1.2 km, in metres.
WALK_KM_THRESHOLD == 1200
WALK_MIN_PER_KM == 12
DRIVE_MIN_PER_KM == 3
\* LUNCH_INSERT_AFTER_HOURS = 3.5 h, in minutes.
LUNCH_INSERT_AFTER_HOURS == 210
\* Transliterated: "бар" -> "bar", "еда" -> "eda", "кофе" -> "kofe".
FOOD_TAGS == {"food", "coffee", "restaurant", "cafe", "bar", "eda", "kofe"}
\* One cell of _cluster_key: 0.00135 degrees, about 150 m.
CLUSTER_CELL == 150
\* 1.0 as a component score (fixed point, 6 decimals); a weighted score
\* is in units of 1/(100 * ONE).
ONE == 1000000

\* ---------------------------------------------------------------- helpers

Max(a, b) == IF a >= b THEN a ELSE b
Min(a, b) == IF a <= b THEN a ELSE b
Abs(a) == IF a < 0 THEN -a ELSE a

Range(s) == {s[i] : i \in 1..Len(s)}

\* s[:n] of Python, n >= 0.
Take(s, n) == SubSeq(s, 1, Min(n, Len(s)))
\* s[n:] of Python, n >= 0.
Drop(s, n) == SubSeq(s, Min(n, Len(s)) + 1, Len(s))

RECURSIVE Reverse(_)
Reverse(s) == IF s = <<>> THEN <<>> ELSE Append(Reverse(Tail(s)), Head(s))

\* The least r with r * r >= n, by bisection of lo..hi (lo * lo < n <= hi * hi).
RECURSIVE CeilSqrtIn(_, _, _)
CeilSqrtIn(n, lo, hi) ==
    IF hi - lo <= 1 THEN hi
    ELSE LET mid == (lo + hi) \div 2
         IN IF mid * mid >= n THEN CeilSqrtIn(n, lo, mid) ELSE CeilSqrtIn(n, mid, hi)
CeilSqrt(n) == IF n = 0 THEN 0 ELSE CeilSqrtIn(n, 0, 46340)

\* round() of Python 3 on num/den (den > 0, num >= 0): half to even.
PyRound(num, den) ==
    LET q == num \div den
        r == num % den
    IN IF 2 * r < den THEN q
       ELSE IF 2 * r > den THEN q + 1
       ELSE IF q % 2 = 0 THEN q ELSE q + 1

\* a == b of two place dicts: every field but the identity.
SameValue(p, q) == [p EXCEPT !.id = 0] = [q EXCEPT !.id = 0]
\* p in lst of Python (identity or equality; identity implies equality).
InList(p, lst) == \E i \in 1..Len(lst) : SameValue(p, lst[i])

\* --------------------------------------------------------------- inputs

\* CITY_CENTERS["Ростов-на-Дону"], the fallback start point.
CITY_CENTER == <<3000, 3000>>
\* A location reported by the user.
USER_LOCATION == <<2600, 3900>>

NoHours == <<>>
Slot(fh, fm, th, tm) == [from |-> <<fh, fm>>, to |-> <<th, tm>>]

Place(id, name, lat, lon, tags, rating, reviews_count, hours_today) ==
    [id |-> id, name |-> name, lat |-> lat, lon |-> lon, tags |-> tags,
     rating |-> rating, reviews_count |-> reviews_count,
     hours_today |-> hours_today]

\* The places a provider may return. 3 lies in the grid cell of 1; 8 is
\* colocated with 7; 3 opens at 13:30, 3.5 hours after the start; 4
\* publishes one unparsable slot and opens at 14:00; 5 closes at 10:00;
\* 6 closes between 11:00 and 15:00; any further place repeats 2 as
\* another object.
Catalogue(i) ==
    CASE i = 1 -> Place(1, <<"M1">>, 3000, 3400, <<"museum">>, 45, 300,
                        <<Slot(10, 0, 18, 0)>>)
      [] i = 2 -> Place(2, <<"P", ";", "2">>, 3900, 3000, <<"park">>, 40, 50, NoHours)
      [] i = 3 -> Place(3, <<"F", ",", "3">>, 3040, 3440, <<"food", "coffee">>, 30, 10,
                        <<Slot(13, 30, 23, 0)>>)
      [] i = 4 -> Place(4, <<"H4">>, 2200, 2100, <<"history">>, 50, 500,
                        <<[from |-> <<>>, to |-> <<12, 0>>], Slot(14, 0, 20, 0)>>)
      [] i = 5 -> Place(5, <<"G5">>, 5000, 7000, <<"gallery">>, 0, 0,
                        <<Slot(8, 0, 10, 0)>>)
      [] i = 6 -> Place(6, <<"W6">>, 3000, 2000, <<"walk">>, 35, 120,
                        <<Slot(9, 0, 11, 0), Slot(15, 0, 19, 0)>>)
      [] i = 7 -> Place(7, <<"N", "\n", "7">>, 3600, 3700, <<"nature">>, 48, 20, NoHours)
      [] i = 8 -> Place(8, <<"T", "\\", "8">>, 3600, 3700, <<"theatre">>, 44, 10, NoHours)
      [] OTHER -> Place(i, <<"P", ";", "2">>, 3900, 3000, <<"park">>, 40, 50, NoHours)

\* The candidate list of a request: the catalogue places of a set, in
\* catalogue order.
RECURSIVE PlacesOf(_, _)
PlacesOf(ids, from) ==
    IF from > NumPlaces THEN <<>>
    ELSE (IF from \in ids THEN <<Catalogue(from)>> ELSE <<>>) \o PlacesOf(ids, from + 1)

\* The requested tag lists of the requests.
TagLists ==
    { <<>>,
      <<"museum">>,
      <<"park", "food", "park">>,
      <<"museum", "park", "food", "history", "gallery", "walk", "nature",
        "theatre">> }

\* day_end: <<t>> for a clock time t (minute of the day), <<>> for None.
\* 20:00 is the default of build_route.
DayEnds == {<<>>, <<1200>>, <<780>>}

\* ---------------------------------------------------- geo and durations

\* The distances of the points of the request: a memo of haversine_km.
VARIABLE geo

\* The distance of two points in whole metres, rounded up.
PlanarMetres(lat1, lon1, lat2, lon2) ==
    LET d_lat == lat2 - lat1
        d_lon == lon2 - lon1
    IN CeilSqrt(d_lat * d_lat + d_lon * d_lon)

\* The points of the requests and their distances, which a request
\* computes once and looks up afterwards.
KnownPoints ==
    {CITY_CENTER, USER_LOCATION}
    \cup {<<Catalogue(i).lat, Catalogue(i).lon>> : i \in 1..NumPlaces}
DistanceTable ==
    [q \in KnownPoints \X KnownPoints |->
        PlanarMetres(q[1][1], q[1][2], q[2][1], q[2][2])]

haversine_km(lat1, lon1, lat2, lon2) == geo[<<<<lat1, lon1>>, <<lat2, lon2>>>>]

_duration_for_place(place) ==
    LET tags == Range(place.tags)
    IN IF tags \cap FOOD_TAGS # {} THEN 45
       ELSE IF tags \cap {"museum", "history", "gallery"} # {} THEN 75
       ELSE IF tags \cap {"park", "walk", "embankment", "nature"} # {} THEN 60
       ELSE 50

\* A variant without the floor of MIN_TRAVEL_MINUTES.
TravelMinutesUnfloored(distance_km) ==
    LET pace == IF distance_km <= WALK_KM_THRESHOLD THEN WALK_MIN_PER_KM
                ELSE DRIVE_MIN_PER_KM
    IN PyRound(distance_km * pace, 1000)

\* distance in metres; est = km * pace = metres * pace / 1000.
_travel_minutes(distance_km) ==
    LET pace == IF distance_km <= WALK_KM_THRESHOLD THEN WALK_MIN_PER_KM
                ELSE DRIVE_MIN_PER_KM
    IN Max(MIN_TRAVEL_MINUTES, PyRound(distance_km * pace, 1000))

\* ---------------------------------------------------- scoring, selection

_interest_score(place, requested_tags) ==
    IF requested_tags = <<>> THEN ONE
    ELSE LET p_tags == Range(place.tags)
             r_tags == Range(requested_tags)
         IN (Cardinality(p_tags \cap r_tags) * ONE) \div Cardinality(r_tags)

_proximity_score(distance_km) == (ONE * 1000) \div (1000 + distance_km)

\* rating in tenths of a star (0..50); reviews a count.
_quality_score(place) ==
    LET base == IF place.rating # 0 THEN (place.rating * ONE) \div 50 ELSE 0
        boost == (Min(200, place.reviews_count) * (ONE \div 5)) \div 200
    IN Max(0, Min(ONE, base + boost))

\* origin is a pair <<lat, lon>>, or <<>> for None.
_score_place(place, requested_tags, origin) ==
    LET d == IF origin # <<>>
             THEN haversine_km(origin[1], origin[2], place.lat, place.lon)
             ELSE 0
        s_interest == _interest_score(place, requested_tags)
        s_prox == IF origin # <<>> THEN _proximity_score(d) ELSE ONE \div 2
        s_quality == _quality_score(place)
    IN (W_INTEREST * s_interest) + (W_PROXIMITY * s_prox) + (W_QUALITY * s_quality)

_cluster_key(lat, lon) == <<lat \div CLUSTER_CELL, lon \div CLUSTER_CELL>>

\* A ScoredCandidate: a place with the score the key function gives it
\* (the score of a place is the same at every call within one selection).
Scored(lst, requested_tags, origin) ==
    [k \in 1..Len(lst) |->
        [place |-> lst[k], score |-> _score_place(lst[k], requested_tags, origin)]]

\* sorted(lst, key=score, reverse=True): stable, descending.
RECURSIVE InsertDesc(_, _)
InsertDesc(sorted, c) ==
    IF sorted = <<>> THEN <<c>>
    ELSE IF Head(sorted).score >= c.score
         THEN <<Head(sorted)>> \o InsertDesc(Tail(sorted), c)
         ELSE <<c>> \o sorted

RECURSIVE SortedByScore(_)
SortedByScore(lst) ==
    IF lst = <<>> THEN <<>>
    ELSE InsertDesc(SortedByScore(SubSeq(lst, 1, Len(lst) - 1)), lst[Len(lst)])

\* max(lst, key=score): the first element of the greatest score (lst # <<>>).
MaxByScore(lst) ==
    LET first == CHOOSE i \in 1..Len(lst) :
                   /\ \A j \in 1..Len(lst) : lst[j].score <= lst[i].score
                   /\ \A j \in 1..(i - 1) : lst[j].score < lst[i].score
    IN lst[first]

\* list(dict.fromkeys(lst)): first occurrences, in order.
RECURSIVE DistinctInOrder(_)
DistinctInOrder(lst) ==
    IF lst = <<>> THEN <<>>
    ELSE LET init == DistinctInOrder(SubSeq(lst, 1, Len(lst) - 1))
             x == lst[Len(lst)]
         IN IF x \in Range(init) THEN init ELSE Append(init, x)

\* A variant that covers the first requested tag only.
CoverageOfFirstTag(r_tags, pool) ==
    IF r_tags = <<>> THEN <<>>
    ELSE LET tagged == SelectSeq(pool, LAMBDA c : Head(r_tags) \in Range(c.place.tags))
         IN IF tagged # <<>> THEN <<MaxByScore(tagged)>> ELSE <<>>

\* coverage.values(): for each distinct requested tag, in order, the best
\* place of the pool that carries it (tags without such a place are skipped).
RECURSIVE CoverageValues(_, _)
CoverageValues(r_tags, pool) ==
    IF r_tags = <<>> THEN <<>>
    ELSE LET tag == Head(r_tags)
             tagged == SelectSeq(pool, LAMBDA c : tag \in Range(c.place.tags))
             rest == CoverageValues(Tail(r_tags), pool)
         IN IF tagged # <<>> THEN <<MaxByScore(tagged)>> \o rest ELSE rest

\* list({id(v): v for v in lst}.values()): one entry per object, in the
\* order of first occurrence.
RECURSIVE DistinctById(_)
DistinctById(lst) ==
    IF lst = <<>> THEN <<>>
    ELSE LET init == DistinctById(SubSeq(lst, 1, Len(lst) - 1))
             v == lst[Len(lst)]
         IN IF \E i \in 1..Len(init) : init[i].place.id = v.place.id THEN init
            ELSE Append(init, v)

\* The picked dict after the anti-duplicate loop, as its list of values in
\* key insertion order: a later place of a cell replaces the kept one only
\* with a strictly greater score.
RECURSIVE PickedValues(_)
PickedValues(pool) ==
    IF pool = <<>> THEN <<>>
    ELSE LET init == PickedValues(SubSeq(pool, 1, Len(pool) - 1))
             c == pool[Len(pool)]
             key == _cluster_key(c.place.lat, c.place.lon)
             at == {i \in 1..Len(init) :
                      _cluster_key(init[i].place.lat, init[i].place.lon) = key}
         IN IF at = {} THEN Append(init, c)
            ELSE LET i == CHOOSE k \in at : TRUE
                 IN IF c.score > init[i].score THEN [init EXCEPT ![i] = c]
                    ELSE init

PlacesIn(lst) == [k \in 1..Len(lst) |-> lst[k].place]

\* pool = scored[:pool_size], each place with its score.
ShortlistPool(places, requested_tags, start_location) ==
    LET items == Scored(places, requested_tags, start_location)
        scored == SortedByScore(items)
        pool_size == Max(MAX_STOPS * CANDIDATE_POOL_MULTIPLIER, MAX_STOPS)
    IN Take(scored, pool_size)

\* list({id(v): v for v in coverage.values()}.values()) for a pool.
CoveragePlaces(pool, requested_tags) ==
    DistinctById(CoverageValues(DistinctInOrder(requested_tags), pool))

\* A variant that returns result whole.
Uncapped(result) == result

\* return result[:MAX_STOPS]
CapStops(result) == Take(result, MAX_STOPS)

pick_candidates(places, requested_tags, start_location) ==
    LET pool == ShortlistPool(places, requested_tags, start_location)
        unique_pool == PickedValues(pool)
        result == CoveragePlaces(pool, requested_tags)
        remaining == SortedByScore(
                        SelectSeq(unique_pool,
                                  LAMBDA c : ~InList(c.place, PlacesIn(result))))
        filled == result \o Take(remaining, Max(0, MAX_STOPS - Len(result)))
    IN IF places = <<>> THEN <<>> ELSE PlacesIn(CapStops(filled))

\* ------------------------------------------------------- route ordering

RECURSIVE _route_len(_, _, _)
_route_len(seq, s_lat, s_lon) ==
    IF seq = <<>> THEN 0
    ELSE haversine_km(s_lat, s_lon, Head(seq).lat, Head(seq).lon)
         + _route_len(Tail(seq), Head(seq).lat, Head(seq).lon)

\* min(remaining, key=distance): the first element at the least distance.
NearestIndex(remaining, cur_lat, cur_lon) ==
    LET d(k) == haversine_km(cur_lat, cur_lon, remaining[k].lat, remaining[k].lon)
    IN CHOOSE i \in 1..Len(remaining) :
          /\ \A j \in 1..Len(remaining) : d(i) <= d(j)
          /\ \A j \in 1..(i - 1) : d(i) < d(j)

\* lst.remove(x): lst without its first element == x.
ListRemove(lst, x) ==
    LET k == CHOOSE i \in 1..Len(lst) :
                 SameValue(lst[i], x) /\ \A j \in 1..(i - 1) : ~SameValue(lst[j], x)
    IN SubSeq(lst, 1, k - 1) \o SubSeq(lst, k + 1, Len(lst))

RECURSIVE _nearest_neighbor(_, _, _)
_nearest_neighbor(start_lat, start_lon, places) ==
    IF places = <<>> THEN <<>>
    ELSE LET nxt == places[NearestIndex(places, start_lat, start_lon)]
         IN <<nxt>> \o _nearest_neighbor(nxt.lat, nxt.lon, ListRemove(places, nxt))

\* A variant where remaining is the caller's list itself: the loop removes
\* every element of it.
CallerListEmptied(places) == <<>>

\* The list the caller gave _nearest_neighbor, after the call:
\* remaining = places.copy(), so remaining.remove(nxt) acts on the copy.
CallerListAfterNearestNeighbor(places) == places

\* A variant with the comparison the wrong way round.
ImprovesReversed(new_len, best_len) == new_len > best_len

\* A variant that also accepts a route of the same length.
ImprovesOrEqual(new_len, best_len) == new_len <= best_len

\* new_len + 1e-9 < best_len. Lengths are whole metres and 1e-9 km is a
\* millionth of a metre, so the epsilon never decides between two lengths.
Improves(new_len, best_len) == new_len < best_len

\* A variant whose tail starts one place too late: best[j + 2:].
TwoOptMoveShortTail(best, i, j) ==
    Take(best, i + 1) \o Reverse(SubSeq(best, i + 2, j + 1)) \o Drop(best, j + 2)

\* best[:i + 1] + best[i + 1:j + 1][::-1] + best[j + 1:], i and j 0-based.
TwoOptMove(best, i, j) ==
    Take(best, i + 1) \o Reverse(SubSeq(best, i + 2, j + 1)) \o Drop(best, j + 1)

\* The two for loops of one pass of `while improved` in _two_opt, from the
\* pair (i, j) on: the route after the pass and whether a move was accepted.
RECURSIVE TwoOptScanFrom(_, _, _, _, _, _, _)
TwoOptScanFrom(start_lat, start_lon, best, best_len, improved, i, j) ==
    LET n == Len(best)
    IN IF i > n - 3 THEN [best |-> best, improved |-> improved]
       ELSE IF j > n - 1
            THEN TwoOptScanFrom(start_lat, start_lon, best, best_len, improved,
                                i + 1, i + 3)
            ELSE LET new_seq == TwoOptMove(best, i, j)
                     new_len == _route_len(new_seq, start_lat, start_lon)
                 IN IF Improves(new_len, best_len)
                    THEN TwoOptScanFrom(start_lat, start_lon, new_seq, new_len, TRUE,
                                        i, j + 1)
                    ELSE TwoOptScanFrom(start_lat, start_lon, best, best_len, improved,
                                        i, j + 1)

\* best_len is always the length of best, so a pass recomputes it.
TwoOptScan(start_lat, start_lon, best) ==
    TwoOptScanFrom(start_lat, start_lon, best,
                   _route_len(best, start_lat, start_lon), FALSE, 0, 2)

\* The inner loop of _or_opt for one node: rest[:j] + [node] + rest[j:] for
\* j = from..len(rest), each accepted when it improves on the best so far.
RECURSIVE OrOptInsertFrom(_, _, _, _, _, _, _)
OrOptInsertFrom(start_lat, start_lon, best, best_len, node, rest, j) ==
    IF j > Len(rest) THEN best
    ELSE LET cand == Take(rest, j) \o <<node>> \o Drop(rest, j)
             cand_len == _route_len(cand, start_lat, start_lon)
         IN IF Improves(cand_len, best_len)
            THEN OrOptInsertFrom(start_lat, start_lon, cand, cand_len, node, rest, j + 1)
            ELSE OrOptInsertFrom(start_lat, start_lon, best, best_len, node, rest, j + 1)

\* One pass of `for i in range(n)` in _or_opt, i 0-based.
OrOptPass(start_lat, start_lon, best, i) ==
    LET node == best[i + 1]
        rest == Take(best, i) \o Drop(best, i + 1)
    IN OrOptInsertFrom(start_lat, start_lon, best,
                       _route_len(best, start_lat, start_lon), node, rest, 0)

\* -------------------------------------------------------- opening hours

\* A slot is [from |-> <<h, m>>, to |-> <<h, m>>]; a bound that is not a pair
\* of numbers (None, free text) or names no clock time makes the slot
\* unparsable. The result is a list of <<from, to>> minutes of the day, or
\* <<>> for None.
IsClock(v) == /\ v \in Seq(Int) /\ Len(v) = 2
              /\ v[1] \in 0..23 /\ v[2] \in 0..59
_parse_hours(place) ==
    LET slots == place.hours_today
        ok == SelectSeq(slots, LAMBDA s : IsClock(s.from) /\ IsClock(s.to))
    IN [k \in 1..Len(ok) |->
          <<ok[k].from[1] * 60 + ok[k].from[2], ok[k].to[1] * 60 + ok[k].to[2]>>]

\* cur_dt.replace(hour=h, minute=m): the same day at that clock time.
ReplaceClock(cur_dt, clock_min) == (cur_dt \div 1440) * 1440 + clock_min

\* A variant that returns the opening time of the slot even when the visitor
\* comes after it.
RECURSIVE AlignToSlotStart(_, _)
AlignToSlotStart(cur_dt, slots) ==
    IF slots = <<>> THEN cur_dt
    ELSE LET start == ReplaceClock(cur_dt, Head(slots)[1])
             end == ReplaceClock(cur_dt, Head(slots)[2])
         IN IF cur_dt <= end THEN start
            ELSE AlignToSlotStart(cur_dt, Tail(slots))

\* A variant that looks at the first interval only.
AlignToFirstSlot(cur_dt, slots) ==
    IF slots = <<>> THEN cur_dt
    ELSE LET start == ReplaceClock(cur_dt, Head(slots)[1])
             end == ReplaceClock(cur_dt, Head(slots)[2])
         IN IF cur_dt <= end THEN Max(cur_dt, start) ELSE cur_dt

RECURSIVE _align_to_opening(_, _)
_align_to_opening(cur_dt, slots) ==
    IF slots = <<>> THEN cur_dt
    ELSE LET start == ReplaceClock(cur_dt, Head(slots)[1])
             end == ReplaceClock(cur_dt, Head(slots)[2])
         IN IF cur_dt <= end THEN Max(cur_dt, start)
            ELSE _align_to_opening(cur_dt, Tail(slots))

\* ------------------------------------------------------- snack insertion

IsFood(p) == Range(p.tags) \cap FOOD_TAGS # {}

\* min(candidates, key=distance to the anchor): the first at least distance.
NearestTo(candidates, anchor) ==
    candidates[NearestIndex(candidates, anchor.lat, anchor.lon)]

\* The for loop of _maybe_insert_food from position j on.
RECURSIVE InsertBestFrom(_, _, _, _, _, _, _)
InsertBestFrom(start_lat, start_lon, ordered, best, best_route, best_len, j) ==
    IF j > Len(ordered) THEN best_route
    ELSE LET cand == Take(ordered, j) \o <<best>> \o Drop(ordered, j)
             l == _route_len(cand, start_lat, start_lon)
         IN IF l < best_len
            THEN InsertBestFrom(start_lat, start_lon, ordered, best, cand, l, j + 1)
            ELSE InsertBestFrom(start_lat, start_lon, ordered, best, best_route,
                                best_len, j + 1)

_maybe_insert_food(start_lat, start_lon, ordered, all_places) ==
    IF ordered = <<>> THEN ordered
    ELSE IF \E i \in 1..Len(ordered) : IsFood(ordered[i]) THEN ordered
    ELSE LET mid_idx == Len(ordered) \div 2
             anchor == ordered[mid_idx + 1]
             candidates == SelectSeq(all_places,
                               LAMBDA p : IsFood(p) /\ ~InList(p, ordered))
         IN IF candidates = <<>> THEN ordered
            ELSE InsertBestFrom(start_lat, start_lon, ordered,
                                NearestTo(candidates, anchor), ordered,
                                _route_len(ordered, start_lat, start_lon), 0)

\* ------------------------------------------------------------- calendar

Pad2(n) == IF n < 10 THEN "0" \o ToString(n) ELSE ToString(n)

RECURSIVE Concat(_)
Concat(chunks) == IF chunks = <<>> THEN "" ELSE Head(chunks) \o Concat(Tail(chunks))

\* sep.join(parts) on texts (sequences of chunks).
RECURSIVE JoinText(_, _)
JoinText(sep, parts) ==
    IF parts = <<>> THEN <<>>
    ELSE IF Len(parts) = 1 THEN parts[1]
    ELSE parts[1] \o sep \o JoinText(sep, Tail(parts))

\* The trip date is 2025-06-01; a datetime past midnight falls on a later
\* day of June.
DateIso(dt) == "2025-06-" \o Pad2(1 + dt \div 1440)
DateBasic(dt) == "202506" \o Pad2(1 + dt \div 1440)

\* datetime.isoformat() of a naive datetime without seconds:
\* YYYY-MM-DDTHH:MM:00, as the chunks <<date, "T", HH, ":", MM, ":", SS>>.
isoformat(dt) ==
    <<DateIso(dt), "T", Pad2((dt % 1440) \div 60), ":", Pad2(dt % 60), ":", "00">>

\* The two-digit number a chunk spells, -1 when it spells none below limit.
TwoDigits(chunk, limit) ==
    LET n == CHOOSE k \in 0..limit :
                 \/ k < limit /\ Pad2(k) = chunk
                 \/ k = limit /\ \A m \in 0..(limit - 1) : Pad2(m) # chunk
    IN IF n < limit THEN n ELSE -1

\* The day of the trip a date chunk names (0 the trip date), -1 when none.
DayOf(chunk) ==
    LET d == CHOOSE k \in 0..30 :
                 \/ k < 30 /\ DateIso(k * 1440) = chunk
                 \/ k = 30 /\ \A m \in 0..29 : DateIso(m * 1440) # chunk
    IN IF d < 30 THEN d ELSE -1

\* datetime.fromisoformat(value), wrapped: the datetime, or InvalidIso for
\* the ValueError "Invalid ISO datetime".
InvalidIso == -1

\* A variant that reads a malformed value as 00:00 of the trip date.
ParseIsoCoercing(value) == 0

_parse_iso(value) ==
    IF Len(value) = 7 /\ value[2] = "T" /\ value[4] = ":" /\ value[6] = ":"
    THEN LET day == DayOf(value[1])
             hour == TwoDigits(value[3], 24)
             minute == TwoDigits(value[5], 60)
             second == TwoDigits(value[7], 60)
         IN IF day >= 0 /\ hour >= 0 /\ minute >= 0 /\ second >= 0
            THEN day * 1440 + hour * 60 + minute
            ELSE InvalidIso
    ELSE InvalidIso

\* A naive datetime gets the zone attached and keeps its wall time.
_ensure_tz(dt, tz) == dt

\* A variant that writes the date and leaves the clock time at zero.
StrfDateOnly(dt) == DateBasic(dt) \o "T000000"

\* strftime('%Y%m%dT%H%M%S') of a schedule datetime.
StrfLocal(dt) ==
    DateBasic(dt) \o "T" \o Pad2((dt % 1440) \div 60) \o Pad2(dt % 60) \o "00"

\* datetime.now(timezone.utc).strftime("%Y%m%dT%H%M%SZ"): the wall clock
\* counts the seconds after 2025-05-20 08:00:00 UTC.
StrfNow(now) ==
    "20250520T08" \o Pad2((now \div 60) % 60) \o Pad2(now % 60) \o "Z"

\* A variant that leaves the newline as it is.
EscapeChunkKeepingNewline(c) ==
    IF c = "\\" THEN "\\\\"
    ELSE IF c = ";" THEN "\\;"
    ELSE IF c = "," THEN "\\,"
    ELSE c

EscapeChunk(c) ==
    IF c = "\\" THEN "\\\\"
    ELSE IF c = ";" THEN "\\;"
    ELSE IF c = "," THEN "\\,"
    ELSE IF c = "\n" THEN "\\n"
    ELSE c

\* _escape on a text whose reserved characters are chunks of their own.
_escape(value) == [k \in 1..Len(value) |-> EscapeChunk(value[k])]

HEADER_TEMPLATE(title, tzid) ==
    "BEGIN:VCALENDAR\n"
    \o "VERSION:2.0\n"
    \o "PRODID:-//dgtu-hack//route//EN\n"
    \o "X-WR-CALNAME:" \o title \o "\n"
    \o "X-WR-TIMEZONE:" \o tzid \o "\n"
    \o "BEGIN:VTIMEZONE\n"
    \o "TZID:" \o tzid \o "\n"
    \o "BEGIN:STANDARD\n"
    \o "DTSTART:19700329T000000\n"
    \o "TZOFFSETFROM:+0300\n"
    \o "TZOFFSETTO:+0300\n"
    \o "TZNAME:MSK\n"
    \o "END:STANDARD\n"
    \o "END:VTIMEZONE\n"

ICS_FOOTER == "END:VCALENDAR"

\* One VEVENT of make_ics, or "ValueError" when arrive or leave is no ISO
\* datetime; description is a text, <<>> for None or "".
IcsEvent(idx, stop, description, tzid, now_utc) ==
    LET arrive == _parse_iso(stop.arrive)
        leave == _parse_iso(stop.leave)
        arrive_local == _ensure_tz(arrive, tzid)
        leave_local == _ensure_tz(leave, tzid)
        summary == _escape(<<ToString(idx), ". ">> \o stop.name)
        tag_line == JoinText(<<",", " ">>, [k \in 1..Len(stop.tags) |-> <<stop.tags[k]>>])
        own == IF "description" \in DOMAIN stop THEN stop.description ELSE <<>>
        detail == IF description # <<>> THEN description
                  ELSE IF own # <<>> THEN own
                  ELSE IF tag_line # <<>> THEN <<"Tegi: ">> \o tag_line
                  ELSE <<"Marshrut po gorodu">>
    IN IF arrive = InvalidIso \/ leave = InvalidIso THEN "ValueError" ELSE
       "BEGIN:VEVENT\n"
       \o "UID:" \o StrfLocal(arrive_local) \o "@dgtu-hack\n"
       \o "DTSTAMP:" \o now_utc \o "\n"
       \o "DTSTART;TZID=" \o tzid \o ":" \o StrfLocal(arrive_local) \o "\n"
       \o "DTEND;TZID=" \o tzid \o ":" \o StrfLocal(leave_local) \o "\n"
       \o "SUMMARY:" \o Concat(summary) \o "\n"
       \o "DESCRIPTION:" \o Concat(_escape(detail)) \o "\n"
       \o "END:VEVENT"

\* The events of the stops from..len(stops), each followed by a newline;
\* "ValueError" as soon as one event raises.
RECURSIVE IcsEvents(_, _, _, _, _)
IcsEvents(stops, from, description, tzid, now_utc) ==
    IF from > Len(stops) THEN ""
    ELSE LET event == IcsEvent(from, stops[from], description, tzid, now_utc)
             rest == IcsEvents(stops, from + 1, description, tzid, now_utc)
         IN IF event = "ValueError" \/ rest = "ValueError" THEN "ValueError"
            ELSE event \o "\n" \o rest

\* make_ics called when the wall clock reads now: the payload, or
\* "ValueError" when a stop's arrive or leave is no ISO datetime.
make_ics(stops, title, description, tzid, now) ==
    LET header == HEADER_TEMPLATE(Concat(_escape(title)), tzid)
        now_utc == StrfNow(now)
        events == IcsEvents(stops, 1, description, tzid, now_utc)
    IN IF events = "ValueError" THEN "ValueError"
       ELSE header \o "\n" \o events \o ICS_FOOTER \o "\n"

\* f"{hours}ч {minutes}мин", transliterated.
\* A variant that always writes both the hours and the minutes.
FormatHoursAndMinutes(total_minutes) ==
    ToString(total_minutes \div 60) \o "ch " \o ToString(total_minutes % 60) \o "min"

_format_duration(total_minutes) ==
    LET hours == total_minutes \div 60
        minutes == total_minutes % 60
    IN IF hours # 0 /\ minutes # 0
       THEN ToString(hours) \o "ch " \o ToString(minutes) \o "min"
       ELSE IF hours # 0 THEN ToString(hours) \o "ch"
       ELSE ToString(minutes) \o "min"

\* ---------------------------------------------------------------- state

VARIABLES
    places,          \* build_route: the candidate list of the request
    tags,            \* build_route: the requested tags
    start_location,  \* build_route: <<lat, lon>>, or <<>> for None
    day_end,         \* build_route: <<clock time>>, or <<>> for None
    pc,              \* where build_route stands
    dedup,           \* build_route: places without repeated (lat, lon, name)
    selected,        \* build_route: the result of pick_candidates
    nn,              \* order_by_nearest: the nearest-neighbour route
    best,            \* _two_opt, _or_opt: the best route so far
    improved,        \* _two_opt: the flag of the while loop
    or_i,            \* _or_opt: the index of the for loop
    or_taken,        \* _or_opt: the ids of the places taken as node so far
    ordered,         \* build_route: the route handed to the schedule loop
    idx,             \* schedule loop: index of the next place (0-based)
    current_time,    \* schedule loop
    cur_pos,         \* schedule loop: <<cur_lat, cur_lon>>
    stops,           \* schedule loop
    total_minutes,   \* schedule loop
    last_lunch_insert, \* schedule loop: <<index>>, or <<>> for None
    arrivals,        \* schedule loop: arrive_time before and after
                     \* _align_to_opening, for each place looked at
    result,          \* <<the dict build_route returns>>, <<>> before it returns
    clock,           \* the wall clock, in seconds
    ics_again        \* a second make_ics of the same stops, or "None"

VARIABLES
    payload,         \* plan_trip: the request body, <<>> when none is served
    provider,        \* plan_trip: what the place provider does on this request
    raised           \* the exception that left the running function, or "None"

VARIABLES
    ics_stops,       \* make_ics: the stops it is given
    ics_title,       \* make_ics: the title, a text
    ics_description, \* make_ics: the description, <<>> for None or ""
    ics_out          \* make_ics: the payload it returned, or "None"

VARIABLES
    known_prefs,     \* /llm/next: the preferences the client holds
    response,        \* /llm/next: the last answer of next_step
    asked,           \* /llm/next: the fields asked for so far, in order
    answers          \* /llm/next: the values the client supplied, in order

VARIABLES
    req_attempt,     \* _request: attempt, the variable of the for loop
    req_log,         \* _request: what each HTTP attempt met, in order
    req_result       \* _request: what it returned, or "None"

VARIABLES
    cache_memory,    \* cache: _MEMORY_CACHE, key -> <<>> or <<entry>>
    cache_disk,      \* cache: the files of cache_dir, key -> <<>> or <<entry>>
    cache_now,       \* cache: time.time()
    cache_last,      \* cache: the last cache_get, its key, layer and value
    cache_stored     \* cache: key -> what was last written for it

VARIABLES
    bot_state,       \* bot: the FSM state of the chat, "None" when cleared
    bot_data,        \* bot: the FSM data of the chat
    bot_last         \* bot: the last message, the state it met, its handler

planVars == <<payload, provider, raised>>
requestVars == <<req_attempt, req_log, req_result>>
cacheVars == <<cache_memory, cache_disk, cache_now, cache_last, cache_stored>>
botVars == <<bot_state, bot_data, bot_last>>
moreVars == <<requestVars, cacheVars, botVars>>
icsVars == <<ics_stops, ics_title, ics_description, ics_out>>
dialogVars == <<known_prefs, response, asked, answers>>
sideVars == <<planVars, icsVars, dialogVars, moreVars>>
inputVars == <<geo, places, tags, start_location, day_end>>
orderVars == <<dedup, selected, nn, best, improved, or_i, or_taken, ordered>>
schedVars ==
    <<idx, current_time, cur_pos, stops, total_minutes, last_lunch_insert, arrivals>>
outVars == <<result, clock, ics_again>>
vars == <<sideVars, inputVars, pc, orderVars, schedVars, outVars>>

\* start_lat, start_lon = start_location or city_center
StartPoint == IF start_location # <<>> THEN start_location ELSE CITY_CENTER

\* The locals of build_route before its first statement, the wall clock at
\* the start and no second export yet.
RouteLocalsInit ==
    /\ dedup = <<>>
    /\ selected = <<>>
    /\ nn = <<>>
    /\ best = <<>>
    /\ improved = FALSE
    /\ or_i = 0
    /\ or_taken = <<>>
    /\ ordered = <<>>
    /\ idx = 0
    /\ current_time = 0
    /\ cur_pos = <<0, 0>>
    /\ stops = <<>>
    /\ total_minutes = 0
    /\ last_lunch_insert = <<>>
    /\ arrivals = <<>>
    /\ result = <<>>
    /\ clock = 0
    /\ ics_again = "None"

\* No request is being served by plan_trip.
PlanIdle == payload = <<>> /\ provider = <<>> /\ raised = "None"

\* known_prefs is a dict: here a record over the keys the dialogue uses,
\* <<>> for a key the dict does not hold and <<value>> for one it holds.
\* date, budget, pace and city are strings, tags is a list of strings.
NoPrefs == [date |-> <<>>, tags |-> <<>>, budget |-> <<>>, pace |-> <<>>,
            city |-> <<>>]

\* No dialogue is going on.
DialogIdle ==
    /\ known_prefs = NoPrefs
    /\ response = [mode |-> "None"]
    /\ asked = <<>>
    /\ answers = <<>>

\* make_ics has not been called on its own.
IcsIdle ==
    /\ ics_stops = <<>>
    /\ ics_title = <<>>
    /\ ics_description = <<>>
    /\ ics_out = "None"

\* _request is not running.
RequestIdle == req_attempt = 0 /\ req_log = <<>> /\ req_result = "None"

\* The cache is not in use.
CacheIdle ==
    /\ cache_memory = <<>>
    /\ cache_disk = <<>>
    /\ cache_now = 0
    /\ cache_last = <<>>
    /\ cache_stored = <<>>

\* The bot has no chat.
BotIdle == bot_state = "None" /\ bot_data = <<>> /\ bot_last = <<>>

MoreIdle == RequestIdle /\ CacheIdle /\ BotIdle

Init ==
    /\ PlanIdle
    /\ IcsIdle
    /\ DialogIdle
    /\ MoreIdle
    /\ geo = DistanceTable
    /\ \E ids \in SUBSET (1..NumPlaces) : places = PlacesOf(ids, 1)
    /\ tags \in TagLists
    /\ start_location \in {<<>>, USER_LOCATION}
    /\ day_end \in DayEnds
    /\ pc = "dedup"
    /\ RouteLocalsInit

\* ------------------------------------------------------------ build_route

\* key = (round(lat, 6), round(lon, 6), name): whole metres round to
\* themselves.
DedupKey(p) == <<p.lat, p.lon, p.name>>

\* The dedup loop of build_route.
RECURSIVE DedupList(_)
DedupList(items) ==
    IF items = <<>> THEN <<>>
    ELSE LET init == DedupList(SubSeq(items, 1, Len(items) - 1))
             p == items[Len(items)]
         IN IF \E k \in 1..Len(init) : DedupKey(init[k]) = DedupKey(p) THEN init
            ELSE Append(init, p)

Dedup ==
    /\ pc = "dedup"
    /\ dedup' = DedupList(places)
    /\ pc' = "select"
    /\ UNCHANGED <<sideVars, inputVars, selected, nn, best, improved, or_i, or_taken, ordered,
                   schedVars, outVars>>

PickCandidates ==
    /\ pc = "select"
    /\ selected' = pick_candidates(dedup, tags, StartPoint)
    /\ pc' = "order"
    /\ UNCHANGED <<sideVars, inputVars, dedup, nn, best, improved, or_i, or_taken, ordered,
                   schedVars, outVars>>

\* order_by_nearest up to the start of _two_opt; an empty selection
\* returns [] at once.
NearestNeighbor ==
    /\ pc = "order"
    /\ IF selected = <<>>
       THEN /\ ordered' = <<>>
            /\ pc' = "food"
            /\ UNCHANGED <<selected, nn, best, improved>>
       ELSE /\ nn' = _nearest_neighbor(StartPoint[1], StartPoint[2], selected)
            /\ selected' = CallerListAfterNearestNeighbor(selected)
            /\ best' = nn'
            /\ improved' = TRUE
            /\ pc' = "two_opt"
            /\ UNCHANGED ordered
    /\ UNCHANGED <<sideVars, inputVars, dedup, or_i, or_taken, schedVars, outVars>>

\* One pass of `while improved` in _two_opt.
TwoOptPass ==
    /\ pc = "two_opt"
    /\ improved
    /\ LET r == TwoOptScan(StartPoint[1], StartPoint[2], best)
       IN /\ best' = r.best
          /\ improved' = r.improved
    /\ UNCHANGED <<sideVars, inputVars, pc, dedup, selected, nn, or_i, or_taken,
                   ordered, schedVars,
                   outVars>>

\* _two_opt returns and _or_opt starts.
TwoOptReturn ==
    /\ pc = "two_opt"
    /\ ~improved
    /\ or_i' = 0
    /\ or_taken' = <<>>
    /\ pc' = "or_opt"
    /\ UNCHANGED <<sideVars, inputVars, dedup, selected, nn, best, improved, ordered,
                   schedVars, outVars>>

\* One pass of `for i in range(n)` in _or_opt.
OrOptStep ==
    /\ pc = "or_opt"
    /\ or_i < Len(best)
    /\ best' = OrOptPass(StartPoint[1], StartPoint[2], best, or_i)
    /\ or_i' = or_i + 1
    /\ or_taken' = Append(or_taken, best[or_i + 1].id)
    /\ UNCHANGED <<sideVars, inputVars, pc, dedup, selected, nn, improved, ordered,
                   schedVars, outVars>>

\* _or_opt and order_by_nearest return.
OrOptReturn ==
    /\ pc = "or_opt"
    /\ or_i >= Len(best)
    /\ ordered' = best
    /\ pc' = "food"
    /\ UNCHANGED <<sideVars, inputVars, dedup, selected, nn, best, improved, or_i, or_taken,
                   schedVars, outVars>>

\* Lines 284-293: the snack insertion and the start of the schedule.
InsertFood ==
    /\ pc = "food"
    /\ ordered' = IF Len(ordered) >= 4
                  THEN Take(_maybe_insert_food(StartPoint[1], StartPoint[2],
                                               ordered, dedup), MAX_STOPS)
                  ELSE ordered
    /\ current_time' = DEFAULT_START_TIME
    /\ cur_pos' = StartPoint
    /\ stops' = <<>>
    /\ total_minutes' = 0
    /\ last_lunch_insert' = <<>>
    /\ arrivals' = <<>>
    /\ idx' = 0
    /\ pc' = "schedule"
    /\ UNCHANGED <<sideVars, inputVars, dedup, selected, nn, best, improved, or_i,
                   or_taken, outVars>>

\* hard_stop: <<the cutoff as a datetime of the trip date>>, or <<>> for None.
HardStop == IF day_end # <<>> THEN <<day_end[1]>> ELSE <<>>

\* A variant that never records the lunch insert: every stop that crosses
\* the threshold without a food tag is padded.
StopPlanPaddingEveryStop(place, i, now, pos, lunch) ==
    LET distance_km == haversine_km(pos[1], pos[2], place.lat, place.lon)
        travel_minutes == _travel_minutes(distance_km)
        tentative == now + travel_minutes
        aligned == _align_to_opening(tentative, _parse_hours(place))
        duration == _duration_for_place(place)
        crosses == lunch = <<>>
                   /\ aligned - DEFAULT_START_TIME >= LUNCH_INSERT_AFTER_HOURS
        arrive_time == IF crosses /\ ~IsFood(place) THEN aligned + 10 ELSE aligned
    IN [distance_km |-> distance_km,
        travel_minutes |-> travel_minutes,
        tentative |-> tentative,
        aligned |-> aligned,
        duration |-> duration,
        arrive_time |-> arrive_time,
        leave_time |-> arrive_time + duration,
        lunch |-> lunch]

\* A variant where a food-tagged stop that crosses the threshold leaves the
\* lunch insert open for a later stop.
StopPlanFoodKeepsPadding(place, i, now, pos, lunch) ==
    LET distance_km == haversine_km(pos[1], pos[2], place.lat, place.lon)
        travel_minutes == _travel_minutes(distance_km)
        tentative == now + travel_minutes
        aligned == _align_to_opening(tentative, _parse_hours(place))
        duration == _duration_for_place(place)
        crosses == lunch = <<>>
                   /\ aligned - DEFAULT_START_TIME >= LUNCH_INSERT_AFTER_HOURS
        arrive_time == IF crosses /\ ~IsFood(place) THEN aligned + 10 ELSE aligned
    IN [distance_km |-> distance_km,
        travel_minutes |-> travel_minutes,
        tentative |-> tentative,
        aligned |-> aligned,
        duration |-> duration,
        arrive_time |-> arrive_time,
        leave_time |-> arrive_time + duration,
        lunch |-> IF crosses /\ ~IsFood(place) THEN <<i>> ELSE lunch]

\* What one pass of the schedule loop computes for a place, at a cursor.
StopPlan(place, i, now, pos, lunch) ==
    LET distance_km == haversine_km(pos[1], pos[2], place.lat, place.lon)
        travel_minutes == _travel_minutes(distance_km)
        tentative == now + travel_minutes
        aligned == _align_to_opening(tentative, _parse_hours(place))
        duration == _duration_for_place(place)
        crosses == lunch = <<>>
                   /\ aligned - DEFAULT_START_TIME >= LUNCH_INSERT_AFTER_HOURS
        arrive_time == IF crosses /\ ~IsFood(place) THEN aligned + 10 ELSE aligned
    IN [distance_km |-> distance_km,
        travel_minutes |-> travel_minutes,
        tentative |-> tentative,
        aligned |-> aligned,
        duration |-> duration,
        arrive_time |-> arrive_time,
        leave_time |-> arrive_time + duration,
        lunch |-> IF crosses THEN <<i>> ELSE lunch]

\* The stop dict of a place. distance_km_from_prev is round(km, 2): whole
\* metres rounded to tens of metres.
StopOf(place, plan) ==
    [name |-> place.name, lat |-> place.lat, lon |-> place.lon,
     arrive |-> isoformat(plan.arrive_time),
     leave |-> isoformat(plan.leave_time),
     tags |-> place.tags,
     distance_km_from_prev |-> PyRound(plan.distance_km, 10) * 10,
     travel_min_from_prev |-> plan.travel_minutes]

\* A variant that tests the departure computed before the opening wait and
\* the lunch padding.
PastHardStopUnaligned(plan) ==
    HardStop # <<>> /\ plan.tentative + plan.duration > HardStop[1]

\* if hard_stop and leave_time > hard_stop
PastHardStop(plan) == HardStop # <<>> /\ plan.leave_time > HardStop[1]

\* A variant that skips the place that does not fit and goes on with the
\* next one.
ScheduleStopSkipping ==
    /\ pc = "schedule"
    /\ idx < Len(ordered)
    /\ LET place == ordered[idx + 1]
           plan == StopPlan(place, idx, current_time, cur_pos, last_lunch_insert)
       IN /\ last_lunch_insert' = plan.lunch
          /\ arrivals' = Append(arrivals, [tentative |-> plan.tentative,
                                           aligned |-> plan.aligned])
          /\ idx' = idx + 1
          /\ pc' = pc
          /\ IF PastHardStop(plan)
             THEN UNCHANGED <<current_time, cur_pos, stops, total_minutes>>
             ELSE /\ stops' = Append(stops, StopOf(place, plan))
                  /\ total_minutes' = total_minutes + plan.travel_minutes + plan.duration
                  /\ current_time' = plan.leave_time
                  /\ cur_pos' = <<place.lat, place.lon>>
    /\ UNCHANGED <<sideVars, inputVars, orderVars, outVars>>

\* A variant that adds the travel and the visit to the total before the
\* day-end test, so a dropped place is counted.
ScheduleStopCountingDropped ==
    /\ pc = "schedule"
    /\ idx < Len(ordered)
    /\ LET place == ordered[idx + 1]
           plan == StopPlan(place, idx, current_time, cur_pos, last_lunch_insert)
       IN /\ last_lunch_insert' = plan.lunch
          /\ arrivals' = Append(arrivals, [tentative |-> plan.tentative,
                                           aligned |-> plan.aligned])
          /\ IF PastHardStop(plan)
             THEN /\ pc' = "export"
                  /\ total_minutes' = total_minutes + plan.travel_minutes
                                                      + plan.duration
                  /\ UNCHANGED <<idx, current_time, cur_pos, stops>>
             ELSE /\ stops' = Append(stops, StopOf(place, plan))
                  /\ total_minutes' = total_minutes + plan.travel_minutes + plan.duration
                  /\ current_time' = plan.leave_time
                  /\ cur_pos' = <<place.lat, place.lon>>
                  /\ idx' = idx + 1
                  /\ pc' = pc
    /\ UNCHANGED <<sideVars, inputVars, orderVars, outVars>>

\* One pass of the schedule loop: the place is emitted, or the loop breaks.
ScheduleStop ==
    /\ pc = "schedule"
    /\ idx < Len(ordered)
    /\ LET place == ordered[idx + 1]
           plan == StopPlan(place, idx, current_time, cur_pos, last_lunch_insert)
       IN /\ last_lunch_insert' = plan.lunch
          /\ arrivals' = Append(arrivals, [tentative |-> plan.tentative,
                                           aligned |-> plan.aligned])
          /\ IF PastHardStop(plan)
             THEN /\ pc' = "export"
                  /\ UNCHANGED <<idx, current_time, cur_pos, stops, total_minutes>>
             ELSE /\ stops' = Append(stops, StopOf(place, plan))
                  /\ total_minutes' = total_minutes + plan.travel_minutes + plan.duration
                  /\ current_time' = plan.leave_time
                  /\ cur_pos' = <<place.lat, place.lon>>
                  /\ idx' = idx + 1
                  /\ pc' = pc
    /\ UNCHANGED <<sideVars, inputVars, orderVars, outVars>>

\* The schedule loop runs out of places.
ScheduleEnd ==
    /\ pc = "schedule"
    /\ idx >= Len(ordered)
    /\ pc' = "export"
    /\ UNCHANGED <<sideVars, inputVars, orderVars, schedVars, outVars>>

\* The title and description build_route gives make_ics.
\* "Маршрут: {city} {date}" is transliterated.
IcsTitle == <<"Marshrut: ", "Rostov-na-Donu", " ", "2025-06-01">>
IcsDescription == JoinText(<<",", " ">>, [k \in 1..Len(tags) |-> <<tags[k]>>])
TZID == "Europe/Moscow"

\* Lines 333-349: the duration string, the calendar and the result.
Export ==
    /\ pc = "export"
    /\ result' = <<[stops |-> stops,
                    total_minutes |-> total_minutes,
                    total_time |-> _format_duration(total_minutes),
                    total_time_human |-> _format_duration(total_minutes),
                    ics |-> make_ics(stops, IcsTitle, IcsDescription, TZID, clock)]>>
    /\ pc' = "done"
    /\ UNCHANGED <<sideVars, inputVars, orderVars, schedVars, clock, ics_again>>

\* The wall clock advances after build_route has returned.
Tick ==
    /\ pc = "done"
    /\ ics_again = "None"
    /\ clock < MaxClock
    /\ clock' = clock + 1
    /\ UNCHANGED <<sideVars, inputVars, pc, orderVars, schedVars, result, ics_again>>

\* make_ics is called once more on the stops, title and description of the
\* result.
ExportAgain ==
    /\ pc = "done"
    /\ ics_again = "None"
    /\ ics_again' = make_ics(result[1].stops, IcsTitle, IcsDescription, TZID, clock)
    /\ UNCHANGED <<sideVars, inputVars, pc, orderVars, schedVars, result, clock>>

Next ==
    \/ Dedup
    \/ PickCandidates
    \/ NearestNeighbor
    \/ TwoOptPass
    \/ TwoOptReturn
    \/ OrOptStep
    \/ OrOptReturn
    \/ InsertFood
    \/ ScheduleStop
    \/ ScheduleEnd
    \/ Export
    \/ Tick
    \/ ExportAgain

Spec == Init /\ [][Next]_vars

\* -------------------------------------------------------------- plan_trip

\* (tag or "").strip().lower() on the raw tags a request may carry.
StripLower(tag) ==
    CASE tag = " Park " -> "park"
      [] tag = "FOOD" -> "food"
      [] tag = " " -> ""
      [] OTHER -> tag

\* normalize_tags: blank tags dropped, the rest mapped to the vocabulary
\* (vocab.get(value, value): the tags used here are canonical already) and
\* kept once each, in order.
normalize_tags(raw_tags) ==
    DistinctInOrder(SelectSeq([k \in 1..Len(raw_tags) |-> StripLower(raw_tags[k])],
                              LAMBDA value : value # ""))

\* day_end: time | None = time(20, 0)
DEFAULT_DAY_END == 1200

RawTagLists ==
    {<<>>, <<"museum">>, <<" Park ", "FOOD", " ", "park">>,
     <<"museum", "park", "food", "history", "gallery", "walk", "nature", "theatre">>}

\* The request bodies of POST /plan: user_location is <<lat, lon>>, or <<>>
\* when the body carries none.
Payloads ==
    {[user_location |-> u, tags |-> t] :
        u \in {<<>>, USER_LOCATION}, t \in RawTagLists}

\* What fetch_specs_in_region meets: the provider answers with places, one
\* of its requests ends in an error of _request, or the API key is missing.
ProviderFailures == {"DgisError", "DgisAuthError", "DgisQuotaError", "no_key"}
ProviderBehaviours ==
    {[kind |-> "ok", ids |-> ids] : ids \in SUBSET (1..NumPlaces)}
    \cup {[kind |-> k, ids |-> {}] : k \in ProviderFailures}

PlanInit ==
    /\ \E body \in Payloads : payload = <<body>>
    /\ \E behaviour \in ProviderBehaviours : provider = <<behaviour>>
    /\ raised = "None"
    /\ IcsIdle
    /\ DialogIdle
    /\ MoreIdle
    /\ geo = DistanceTable
    /\ places = <<>>
    /\ tags = <<>>
    /\ start_location = <<>>
    /\ day_end = <<>>
    /\ pc = "plan_trip"
    /\ RouteLocalsInit

\* Lines 307-314: float(user_loc.get("lon")) is float(None), a TypeError,
\* when the body carries no user_location.
PlanStart ==
    /\ pc = "plan_trip"
    /\ IF payload[1].user_location = <<>>
       THEN raised' = "TypeError" /\ pc' = "raised"
       ELSE raised' = raised /\ pc' = "fetch"
    /\ UNCHANGED <<payload, provider, icsVars, dialogVars, moreVars, inputVars,
                   orderVars, schedVars, outVars>>

\* Lines 317-332: normalize_tags, plan_queries, fetch_specs_in_region and
\* the call of build_route. Nothing catches what fetch_specs_in_region
\* raises; without an API key fetch_places_in_area raises DgisAuthError.
PlanFetch ==
    /\ pc = "fetch"
    /\ IF provider[1].kind = "ok"
       THEN /\ places' = PlacesOf(provider[1].ids, 1)
            /\ tags' = normalize_tags(payload[1].tags)
            /\ start_location' = payload[1].user_location
            /\ day_end' = <<DEFAULT_DAY_END>>
            /\ pc' = "dedup"
            /\ UNCHANGED raised
       ELSE /\ raised' = IF provider[1].kind = "no_key" THEN "DgisAuthError"
                         ELSE provider[1].kind
            /\ pc' = "raised"
            /\ UNCHANGED <<places, tags, start_location, day_end>>
    /\ UNCHANGED <<payload, provider, icsVars, dialogVars, moreVars, geo, orderVars, schedVars,
                   outVars>>

PlanNext ==
    \/ PlanStart
    \/ PlanFetch
    \/ Next

PlanSpec == PlanInit /\ [][PlanNext]_vars

\* --------------------------------------------------------------- make_ics

\* Strings datetime.fromisoformat rejects: the empty string, a word, hour 25,
\* minute 61.
MalformedTimes ==
    {<<>>,
     <<"junk">>,
     <<DateIso(0), "T", "25", ":", "00", ":", "00">>,
     <<DateIso(0), "T", "10", ":", "61", ":", "00">>}

IcsStop(name, arrive, leave, stop_tags, description) ==
    [name |-> name, arrive |-> arrive, leave |-> leave, tags |-> stop_tags,
     description |-> description]

\* The stops a caller hands to make_ics: stops as build_route writes them,
\* one with a description of its own that holds every reserved character,
\* and stops whose arrive or leave is malformed.
IcsStops ==
    {IcsStop(<<"M1">>, isoformat(608), isoformat(668), <<"museum">>, <<>>),
     IcsStop(<<"P", ";", "2">>, isoformat(676), isoformat(736),
             <<"park", "walk">>, <<>>),
     IcsStop(<<"N", "\n", "7">>, isoformat(744), isoformat(804), <<>>,
             <<"x", "\\", "y", ";", "z", ",", "w", "\n", "v">>)}
    \cup {IcsStop(<<"M1">>, t, isoformat(668), <<"museum">>, <<>>) :
              t \in MalformedTimes}
    \cup {IcsStop(<<"T", "\\", "8">>, isoformat(608), t, <<>>, <<>>) :
              t \in {<<"junk">>, <<DateIso(0), "T", "25", ":", "00", ":", "00">>}}

MaxIcsStops == 2
IcsStopLists ==
    UNION {[1..n -> IcsStops] : n \in 0..MaxIcsStops}

\* The default title, transliterated, and one with reserved characters.
IcsTitles ==
    {<<"Marshrut po Rostovu">>, <<"A", ",", "B", "\n", "C", ";", "D", "\\">>}
IcsDescriptions ==
    {<<>>, <<"Plan", ";", " den", "\n", "2">>}

IcsInit ==
    /\ PlanIdle
    /\ DialogIdle
    /\ ics_stops \in IcsStopLists
    /\ ics_title \in IcsTitles
    /\ ics_description \in IcsDescriptions
    /\ ics_out = "None"
    /\ MoreIdle
    /\ geo = DistanceTable
    /\ places = <<>>
    /\ tags = <<>>
    /\ start_location = <<>>
    /\ day_end = <<>>
    /\ pc = "make_ics"
    /\ RouteLocalsInit

\* One call of make_ics: the payload, or the ValueError of _parse_iso.
MakeIcs ==
    /\ pc = "make_ics"
    /\ LET out == make_ics(ics_stops, ics_title, ics_description, TZID, clock)
       IN IF out = "ValueError"
          THEN raised' = "ValueError" /\ ics_out' = ics_out /\ pc' = "raised"
          ELSE raised' = raised /\ ics_out' = out /\ pc' = "returned"
    /\ UNCHANGED <<payload, provider, ics_stops, ics_title, ics_description,
                   dialogVars, moreVars, inputVars, orderVars, schedVars, outVars>>

IcsNext == MakeIcs

IcsSpec == IcsInit /\ [][IcsNext]_vars

\* ------------------------------------------------------------- /llm/next

\* A variant that asks for the tags before the date.
FlowTagsFirst == <<"tags", "date", "budget", "pace">>

\* The fields of flow in _fallback_next_step, in its order.
DialogFlow == <<"date", "tags", "budget", "pace">>

\* not value, for value = normalized.get(field).
NotValue(field, prefs) ==
    \/ prefs[field] = <<>>
    \/ IF field = "tags" THEN prefs[field][1] = <<>> ELSE prefs[field][1] = ""

\* next_step and _fallback_next_step up to the loop: the tags normalised
\* when the key is there, the default city added when there is none.
NormalizedPrefs(prefs) ==
    [prefs EXCEPT
        !.tags = IF prefs.tags = <<>> THEN <<>>
                 ELSE <<normalize_tags(prefs.tags[1])>>,
        !.city = IF prefs.city = <<>> THEN <<"Rostov-na-Donu">>
                 ELSE prefs.city]

\* The for loop over flow: the first field without a value, "" when every
\* field has one.
FirstMissing(normalized) ==
    LET missing == SelectSeq(DialogFlow, LAMBDA f : NotValue(f, normalized))
    IN IF missing = <<>> THEN "" ELSE missing[1]

\* The non-empty values a client may supply for a field it is asked for.
\* " " and " Park " are tags as a user may type them.
ClientAnswers(field) ==
    CASE field = "date" -> {"2025-06-01", "zavtra"}
      [] field = "tags" -> {<<"museum">>, <<" Park ", "FOOD">>, <<" ">>,
                            <<"museum", "park">>}
      [] field = "budget" -> {"low", "high"}
      [] OTHER -> {"relaxed", "fast"}

\* The number of questions after which the client gives up.
MaxAsks == 6

\* A client that starts with empty preferences, the LLM disabled.
DialogInit ==
    /\ PlanIdle
    /\ IcsIdle
    /\ DialogIdle
    /\ MoreIdle
    /\ geo = DistanceTable
    /\ places = <<>>
    /\ tags = <<>>
    /\ start_location = <<>>
    /\ day_end = <<>>
    /\ pc = "next_step"
    /\ RouteLocalsInit

\* POST /llm/next: llm_next_step, next_step with is_enabled() false, and
\* _fallback_next_step. The client keeps the known_prefs of the answer.
NextStep ==
    /\ pc = "next_step"
    /\ LET normalized == NormalizedPrefs(known_prefs)
           field == FirstMissing(normalized)
       IN IF field # ""
          THEN /\ response' = [mode |-> "ask", field |-> field]
               /\ known_prefs' = normalized
               /\ asked' = Append(asked, field)
               /\ pc' = "answer"
          ELSE /\ response' = [mode |-> "ready",
                               prefs |-> [date |-> normalized.date[1],
                                          city |-> normalized.city[1],
                                          tags |-> normalize_tags(normalized.tags[1]),
                                          budget |-> normalized.budget[1],
                                          pace |-> normalized.pace[1]]]
               /\ pc' = "ready"
               /\ UNCHANGED <<known_prefs, asked>>
    /\ UNCHANGED <<answers, planVars, icsVars, moreVars, inputVars, orderVars, schedVars,
                   outVars>>

\* The client supplies a non-empty value for the field it was asked for and
\* calls again.
ClientAnswer ==
    /\ pc = "answer"
    /\ Len(asked) < MaxAsks
    /\ \E value \in ClientAnswers(response.field) :
           /\ known_prefs' = [known_prefs EXCEPT ![response.field] = <<value>>]
           /\ answers' = Append(answers, <<value>>)
    /\ pc' = "next_step"
    /\ UNCHANGED <<response, asked, planVars, icsVars, moreVars, inputVars, orderVars,
                   schedVars, outVars>>

DialogNext ==
    \/ NextStep
    \/ ClientAnswer

DialogSpec == DialogInit /\ [][DialogNext]_vars

\* --------------------------------------------------------------- _request

\* What one HTTP attempt of _request meets: a response with an error
\* status (raise_for_status raises), a response with a body whose
\* meta.code is given, a response whose body is no JSON (resp.json()
\* raises), or a transport error (httpx.RequestError).
HttpErrorStatuses == {400, 401, 403, 429, 500, 502, 503, 504}
MetaCodes == {200, 403, 404, 429, 500}
Replies ==
    {[kind |-> "status", code |-> c] : c \in HttpErrorStatuses}
    \cup {[kind |-> "body", code |-> c] : c \in MetaCodes}
    \cup {[kind |-> "notjson", code |-> 0], [kind |-> "transport", code |-> 0]}

\* retries = 2
retries == 2

\* A variant that retries whatever the number of the attempt.
AttemptOutcomeRetryingOn(reply, attempt) ==
    IF reply.kind = "status"
    THEN IF reply.code \in {401, 403} THEN "DgisAuthError"
         ELSE IF reply.code = 429 THEN "retry"
         ELSE IF reply.code \in {500, 502, 503, 504} THEN "retry"
         ELSE "HTTPStatusError"
    ELSE IF reply.kind = "body"
    THEN IF reply.code = 200 THEN "items"
         ELSE IF reply.code = 404 THEN "empty"
         ELSE IF reply.code = 403 THEN "DgisAuthError"
         ELSE IF reply.code = 429 THEN "retry"
         ELSE "DgisError"
    ELSE IF reply.kind = "notjson" THEN "JSONDecodeError"
    ELSE "retry"

\* The body of the for loop for one attempt (0-based): "retry" for
\* continue, "items" or "empty" for what is returned, or the name of the
\* exception that leaves _request. DgisAuthError, DgisQuotaError, the
\* re-raised HTTPStatusError and the error of resp.json() are no
\* httpx.RequestError, so the except clause lets them pass.
AttemptOutcome(reply, attempt) ==
    IF reply.kind = "status"
    THEN IF reply.code \in {401, 403} THEN "DgisAuthError"
         ELSE IF reply.code = 429
              THEN (IF attempt < retries THEN "retry" ELSE "DgisQuotaError")
         ELSE IF reply.code \in {500, 502, 503, 504} /\ attempt < retries THEN "retry"
         ELSE "HTTPStatusError"
    ELSE IF reply.kind = "body"
    THEN IF reply.code = 200 THEN "items"
         ELSE IF reply.code = 404 THEN "empty"
         ELSE IF reply.code = 403 THEN "DgisAuthError"
         ELSE IF reply.code = 429
              THEN (IF attempt < retries THEN "retry" ELSE "DgisQuotaError")
         ELSE "DgisError"
    ELSE IF reply.kind = "notjson" THEN "JSONDecodeError"
    ELSE IF attempt < retries THEN "retry" ELSE "DgisError"

RequestInit ==
    /\ PlanIdle
    /\ IcsIdle
    /\ DialogIdle
    /\ CacheIdle
    /\ BotIdle
    /\ req_attempt = 0
    /\ req_log = <<>>
    /\ req_result = "None"
    /\ geo = DistanceTable
    /\ places = <<>>
    /\ tags = <<>>
    /\ start_location = <<>>
    /\ day_end = <<>>
    /\ pc = "request"
    /\ RouteLocalsInit

\* One pass of `for attempt in range(retries + 1)`, or the return [] after
\* the loop.
RequestAttempt ==
    /\ pc = "request"
    /\ IF req_attempt > retries
       THEN /\ req_result' = "empty"
            /\ pc' = "returned"
            /\ UNCHANGED <<req_attempt, req_log, raised>>
       ELSE \E reply \in Replies :
               LET outcome == AttemptOutcome(reply, req_attempt)
               IN /\ req_log' = Append(req_log, reply)
                  /\ IF outcome = "retry"
                     THEN /\ req_attempt' = req_attempt + 1
                          /\ UNCHANGED <<req_result, raised, pc>>
                     ELSE IF outcome \in {"items", "empty"}
                     THEN /\ req_result' = outcome
                          /\ pc' = "returned"
                          /\ UNCHANGED <<req_attempt, raised>>
                     ELSE /\ raised' = outcome
                          /\ pc' = "raised"
                          /\ UNCHANGED <<req_attempt, req_result>>
    /\ UNCHANGED <<payload, provider, icsVars, dialogVars, cacheVars, botVars,
                   inputVars, orderVars, schedVars, outVars>>

RequestNext == RequestAttempt

RequestSpec == RequestInit /\ [][RequestNext]_vars

\* ------------------------------------------------------------------ cache

\* The keys, values and ttl_seconds the callers use, and the last second of
\* the clock.
CacheKeys == {"k1", "k2"}
CacheValues == {"a", "b"}
TtlSeconds == {0, 1, 2}
MaxNow == 3

\* (expires_at, value) of _MEMORY_CACHE and {"expires_at", "value"} of a
\* cache file.
CacheEntry(expires_at, value) == [expires_at |-> expires_at, value |-> value]

\* A variant that still returns an entry at the second it expires.
CacheGetAtExpiry(memory, disk, now, key) ==
    IF memory[key] # <<>> /\ memory[key][1].expires_at >= now
    THEN [value |-> <<memory[key][1].value>>, layer |-> "memory",
          memory |-> memory, disk |-> disk]
    ELSE LET popped == [memory EXCEPT ![key] = <<>>]
         IN IF disk[key] = <<>>
            THEN [value |-> <<>>, layer |-> "miss", memory |-> popped, disk |-> disk]
            ELSE IF disk[key][1].expires_at < now
            THEN [value |-> <<>>, layer |-> "stale", memory |-> popped,
                  disk |-> [disk EXCEPT ![key] = <<>>]]
            ELSE [value |-> <<disk[key][1].value>>, layer |-> "disk",
                  memory |-> [popped EXCEPT ![key] = disk[key]], disk |-> disk]

\* cache_get: value is <<>> for None and <<v>> for the value v; layer is
\* the line the function prints; memory and disk are the two layers as the
\* call leaves them.
cache_get(memory, disk, now, key) ==
    IF memory[key] # <<>> /\ memory[key][1].expires_at > now
    THEN [value |-> <<memory[key][1].value>>, layer |-> "memory",
          memory |-> memory, disk |-> disk]
    ELSE LET popped == [memory EXCEPT ![key] = <<>>]
         IN IF disk[key] = <<>>
            THEN [value |-> <<>>, layer |-> "miss", memory |-> popped, disk |-> disk]
            ELSE IF disk[key][1].expires_at <= now
            THEN [value |-> <<>>, layer |-> "stale", memory |-> popped,
                  disk |-> [disk EXCEPT ![key] = <<>>]]
            ELSE [value |-> <<disk[key][1].value>>, layer |-> "disk",
                  memory |-> [popped EXCEPT ![key] = disk[key]], disk |-> disk]

\* The files an earlier process may have left for a key: none, one that
\* expires at the first second of the clock, one that expires later.
LeftOnDisk == {<<>>, <<CacheEntry(1, "a")>>, <<CacheEntry(3, "b")>>}

\* A process that starts: _MEMORY_CACHE is empty, the cache directory holds
\* what earlier processes wrote.
CacheInit ==
    /\ PlanIdle
    /\ IcsIdle
    /\ DialogIdle
    /\ RequestIdle
    /\ BotIdle
    /\ cache_memory = [k \in CacheKeys |-> <<>>]
    /\ cache_disk \in [CacheKeys -> LeftOnDisk]
    /\ cache_stored = cache_disk
    /\ cache_now = 1
    /\ cache_last = <<>>
    /\ geo = DistanceTable
    /\ places = <<>>
    /\ tags = <<>>
    /\ start_location = <<>>
    /\ day_end = <<>>
    /\ pc = "cache"
    /\ RouteLocalsInit

CacheUnchanged ==
    UNCHANGED <<planVars, icsVars, dialogVars, requestVars, botVars, inputVars,
                pc, orderVars, schedVars, outVars>>

\* cache_set(cache_dir, key, value, ttl_seconds)
CacheSet ==
    /\ pc = "cache"
    /\ \E key \in CacheKeys, value \in CacheValues, ttl_seconds \in TtlSeconds :
           LET entry == CacheEntry(cache_now + ttl_seconds, value)
           IN /\ cache_memory' = [cache_memory EXCEPT ![key] = <<entry>>]
              /\ cache_disk' = [cache_disk EXCEPT ![key] = <<entry>>]
              /\ cache_stored' = [cache_stored EXCEPT ![key] = <<entry>>]
    /\ cache_last' = <<>>
    /\ UNCHANGED cache_now
    /\ CacheUnchanged

\* cache_get(cache_dir, key)
CacheGet ==
    /\ pc = "cache"
    /\ \E key \in CacheKeys :
           LET got == cache_get(cache_memory, cache_disk, cache_now, key)
           IN /\ cache_memory' = got.memory
              /\ cache_disk' = got.disk
              /\ cache_last' = <<[key |-> key, value |-> got.value,
                                  layer |-> got.layer,
                                  memory_before |-> cache_memory[key]]>>
    /\ UNCHANGED <<cache_now, cache_stored>>
    /\ CacheUnchanged

\* time.time() moves on by a second.
CacheTick ==
    /\ pc = "cache"
    /\ cache_now < MaxNow
    /\ cache_now' = cache_now + 1
    /\ cache_last' = <<>>
    /\ UNCHANGED <<cache_memory, cache_disk, cache_stored>>
    /\ CacheUnchanged

CacheNext ==
    \/ CacheSet
    \/ CacheGet
    \/ CacheTick

CacheSpec == CacheInit /\ [][CacheNext]_vars

\* -------------------------------------------------------------------- bot

\* The texts a user sends to the bot.
BotMessages ==
    {"/start", "/plan", "/cancel", "2025-10-26", "2025-13-01", "Skip",
     " History; food,", "low"}

\* str.lower() for the Latin letters.
RECURSIVE Lowered(_)
Lowered(s) ==
    IF s = "" THEN ""
    ELSE LET upper == "ABCDEFGHIJKLMNOPQRSTUVWXYZ"
             lower == "abcdefghijklmnopqrstuvwxyz"
             c == SubSeq(s, 1, 1)
             at == {i \in 1..26 : SubSeq(upper, i, i) = c}
         IN (IF at = {} THEN c
             ELSE LET i == CHOOSE i \in at : TRUE IN SubSeq(lower, i, i))
            \o Lowered(SubSeq(s, 2, Len(s)))

\* str.strip() for blanks and newlines.
RECURSIVE Stripped(_)
Stripped(s) ==
    IF s = "" THEN ""
    ELSE IF SubSeq(s, 1, 1) \in {" ", "\n"} THEN Stripped(SubSeq(s, 2, Len(s)))
    ELSE IF SubSeq(s, Len(s), Len(s)) \in {" ", "\n"}
         THEN Stripped(SubSeq(s, 1, Len(s) - 1))
    ELSE s

\* s.replace(";", ",").split(",")
RECURSIVE SplitOnCommas(_)
SplitOnCommas(s) ==
    LET at == {i \in 1..Len(s) : SubSeq(s, i, i) \in {";", ","}}
    IN IF at = {} THEN <<s>>
       ELSE LET i == CHOOSE i \in at : \A j \in at : i <= j
            IN <<SubSeq(s, 1, i - 1)>> \o SplitOnCommas(SubSeq(s, i + 1, Len(s)))

\* Command(name): the first word of the text is /name.
IsCommand(text, name) ==
    LET blanks == {i \in 1..Len(text) : SubSeq(text, i, i) = " "}
        word == IF blanks = {} THEN text
                ELSE SubSeq(text, 1, (CHOOSE i \in blanks : \A j \in blanks : i <= j) - 1)
    IN word = "/" \o name

\* datetime.fromisoformat(text) followed by parsed.date().isoformat(), for
\* texts of the form YYYY-MM-DD: <<>> for the ValueError, <<the date>>
\* otherwise. The other texts used here are no ISO strings.
FromIsoDate(text) ==
    LET digits == {"0", "1", "2", "3", "4", "5", "6", "7", "8", "9"}
        D(i) == CHOOSE d \in 0..9 : ToString(d) = SubSeq(text, i, i)
        shaped == /\ Len(text) = 10
                  /\ SubSeq(text, 5, 5) = "-"
                  /\ SubSeq(text, 8, 8) = "-"
                  /\ \A i \in {1, 2, 3, 4, 6, 7, 9, 10} : SubSeq(text, i, i) \in digits
    IN IF ~shaped THEN <<>>
       ELSE LET year == 1000 * D(1) + 100 * D(2) + 10 * D(3) + D(4)
                month == 10 * D(6) + D(7)
                day == 10 * D(9) + D(10)
                leap == year % 4 = 0 /\ (year % 100 # 0 \/ year % 400 = 0)
                days == IF month = 2 THEN (IF leap THEN 29 ELSE 28)
                        ELSE IF month \in {4, 6, 9, 11} THEN 30 ELSE 31
            IN IF year < 1 \/ month \notin 1..12 \/ day \notin 1..days THEN <<>>
               ELSE <<(IF year < 10 THEN "000" ELSE IF year < 100 THEN "00"
                       ELSE IF year < 1000 THEN "0" ELSE "")
                      \o ToString(year) \o "-" \o Pad2(month) \o "-" \o Pad2(day)>>

\* The list handle_tags makes of the text.
BotTags(text) ==
    LET raw == Stripped(text)
        pieces == SplitOnCommas(raw)
        kept == SelectSeq(pieces, LAMBDA tag : Stripped(tag) # "")
    IN IF Lowered(raw) = "skip" THEN <<>>
       ELSE [i \in 1..Len(kept) |-> Lowered(Stripped(kept[i]))]

\* The handlers of dp.message, in the order of their registration.
Handlers ==
    <<"cmd_start", "cmd_plan", "handle_date", "handle_tags", "handle_budget",
      "cmd_cancel">>

\* The filters of a handler: a command, or a state of PlanStates.
Matches(handler, text, state) ==
    CASE handler = "cmd_start" -> IsCommand(text, "start")
      [] handler = "cmd_plan" -> IsCommand(text, "plan")
      [] handler = "handle_date" -> state = "date"
      [] handler = "handle_tags" -> state = "tags"
      [] handler = "handle_budget" -> state = "budget"
      [] OTHER -> IsCommand(text, "cancel")

\* The first registered handler whose filters match, "" when there is none.
Dispatch(text, state) ==
    LET matching == SelectSeq(Handlers, LAMBDA h : Matches(h, text, state))
    IN IF matching = <<>> THEN "" ELSE matching[1]

\* The FSM data of a chat without data.
NoBotData == [date |-> <<>>, tags |-> <<>>, budget |-> <<>>]

\* What request_plan does: it returns a plan or raises RuntimeError.
PlanOutcomes == {"plan", "RuntimeError"}

BotInit ==
    /\ PlanIdle
    /\ IcsIdle
    /\ DialogIdle
    /\ RequestIdle
    /\ CacheIdle
    /\ bot_state = "None"
    /\ bot_data = NoBotData
    /\ bot_last = <<>>
    /\ geo = DistanceTable
    /\ places = <<>>
    /\ tags = <<>>
    /\ start_location = <<>>
    /\ day_end = <<>>
    /\ pc = "bot"
    /\ RouteLocalsInit

BotUnchanged ==
    UNCHANGED <<planVars, icsVars, dialogVars, requestVars, cacheVars, inputVars,
                pc, orderVars, schedVars, outVars>>

\* The record of a message: its text, the state it met, the handler that
\* took it and the data handed to request_plan, <<>> when there was no
\* request.
Handled(text, handler, sent) ==
    <<[text |-> text, state |-> bot_state, handler |-> handler, sent |-> sent]>>

cmd_start ==
    /\ pc = "bot"
    /\ \E text \in BotMessages :
           /\ Dispatch(text, bot_state) = "cmd_start"
           /\ bot_last' = Handled(text, "cmd_start", <<>>)
    /\ UNCHANGED <<bot_state, bot_data>>
    /\ BotUnchanged

cmd_plan ==
    /\ pc = "bot"
    /\ \E text \in BotMessages :
           /\ Dispatch(text, bot_state) = "cmd_plan"
           /\ bot_last' = Handled(text, "cmd_plan", <<>>)
    /\ bot_state' = "date"
    /\ UNCHANGED bot_data
    /\ BotUnchanged

handle_date ==
    /\ pc = "bot"
    /\ \E text \in BotMessages :
           /\ Dispatch(text, bot_state) = "handle_date"
           /\ bot_last' = Handled(text, "handle_date", <<>>)
           /\ LET parsed == FromIsoDate(Stripped(text))
              IN IF parsed = <<>>
                 THEN UNCHANGED <<bot_state, bot_data>>
                 ELSE /\ bot_data' = [bot_data EXCEPT !.date = parsed]
                      /\ bot_state' = "tags"
    /\ BotUnchanged

handle_tags ==
    /\ pc = "bot"
    /\ \E text \in BotMessages :
           /\ Dispatch(text, bot_state) = "handle_tags"
           /\ bot_last' = Handled(text, "handle_tags", <<>>)
           /\ bot_data' = [bot_data EXCEPT !.tags = <<BotTags(text)>>]
    /\ bot_state' = "budget"
    /\ BotUnchanged

\* Both ways out of handle_budget end with state.clear().
handle_budget ==
    /\ pc = "bot"
    /\ \E text \in BotMessages, outcome \in PlanOutcomes :
           /\ Dispatch(text, bot_state) = "handle_budget"
           /\ bot_last' =
                  Handled(text, "handle_budget",
                          <<[bot_data EXCEPT !.budget = <<Lowered(Stripped(text))>>]>>)
    /\ bot_state' = "None"
    /\ bot_data' = NoBotData
    /\ BotUnchanged

cmd_cancel ==
    /\ pc = "bot"
    /\ \E text \in BotMessages :
           /\ Dispatch(text, bot_state) = "cmd_cancel"
           /\ bot_last' = Handled(text, "cmd_cancel", <<>>)
    /\ bot_state' = "None"
    /\ bot_data' = NoBotData
    /\ BotUnchanged

\* A message no handler takes.
Unhandled ==
    /\ pc = "bot"
    /\ \E text \in BotMessages :
           /\ Dispatch(text, bot_state) = ""
           /\ bot_last' = Handled(text, "", <<>>)
    /\ UNCHANGED <<bot_state, bot_data>>
    /\ BotUnchanged

BotNext ==
    \/ cmd_start
    \/ cmd_plan
    \/ handle_date
    \/ handle_tags
    \/ handle_budget
    \/ cmd_cancel
    \/ Unhandled

BotSpec == BotInit /\ [][BotNext]_vars

\* ------------------------------------------------------------ properties

\* C1: in the stop list build_route returns, every stop arrives no later
\* than it leaves, and every stop leaves no later than the next one arrives.
C1_StopsTimeOrdered ==
    result # <<>> =>
        LET s == result[1].stops
        IN /\ \A k \in 1..Len(s) :
                LET arrive == _parse_iso(s[k].arrive)
                    leave == _parse_iso(s[k].leave)
                IN arrive # InvalidIso /\ leave # InvalidIso /\ arrive <= leave
           /\ \A k \in 1..(Len(s) - 1) :
                _parse_iso(s[k].leave) <= _parse_iso(s[k + 1].arrive)

\* A returned itinerary of three stops or more in which a stop arrives later
\* than the travel from the previous stop takes (an opening wait or the
\* lunch padding) and the lunch padding was applied.
C1_Witness ==
    /\ result # <<>>
    /\ Len(result[1].stops) >= 3
    /\ last_lunch_insert # <<>>
    /\ \E k \in 1..(Len(result[1].stops) - 1) :
          _parse_iso(result[1].stops[k + 1].arrive)
            > _parse_iso(result[1].stops[k].leave)
              + result[1].stops[k + 1].travel_min_from_prev

\* C2: when day_end is a clock time, no returned stop leaves later than
\* day_end on the trip date.
C2_NoStopPastDayEnd ==
    (result # <<>> /\ day_end # <<>>) =>
        \A k \in 1..Len(result[1].stops) :
            LET leave == _parse_iso(result[1].stops[k].leave)
            IN leave # InvalidIso /\ leave <= day_end[1]

\* A returned itinerary under a day end, cut short, in which a stop waited
\* for an opening or took the lunch padding.
C2_Witness ==
    /\ result # <<>>
    /\ day_end # <<>>
    /\ Len(result[1].stops) >= 2
    /\ Len(result[1].stops) < Len(ordered)
    /\ \E k \in 1..(Len(result[1].stops) - 1) :
          _parse_iso(result[1].stops[k + 1].arrive)
            > _parse_iso(result[1].stops[k].leave)
              + result[1].stops[k + 1].travel_min_from_prev

\* C3: the returned stops are a prefix of the ordered places; when the
\* prefix is proper, the first place left out is one whose departure exceeds
\* the cutoff, and no place from there on appears among the stops.
C3_StopsArePrefix ==
    pc = "done" =>
        LET s == result[1].stops
            n == Len(s)
        IN /\ n <= Len(ordered)
           /\ \A k \in 1..n :
                /\ s[k].name = ordered[k].name
                /\ s[k].lat = ordered[k].lat
                /\ s[k].lon = ordered[k].lon
           /\ \A k \in (n + 1)..Len(ordered) : \A m \in 1..n :
                <<s[m].name, s[m].lat, s[m].lon>>
                  # <<ordered[k].name, ordered[k].lat, ordered[k].lon>>
           /\ n < Len(ordered) =>
                PastHardStop(StopPlan(ordered[n + 1], n, current_time, cur_pos,
                                      IF last_lunch_insert = <<n>> THEN <<>>
                                      ELSE last_lunch_insert))

\* A returned itinerary cut short although a later place, visited from the
\* last stop, would leave before the cutoff.
C3_Witness ==
    /\ pc = "done"
    /\ Len(result[1].stops) >= 1
    /\ Len(result[1].stops) + 2 <= Len(ordered)
    /\ \E k \in (Len(result[1].stops) + 2)..Len(ordered) :
          ~PastHardStop(StopPlan(ordered[k], Len(result[1].stops), current_time,
                                 cur_pos, last_lunch_insert))

\* C4: pick_candidates returns at most MAX_STOPS places and at most as many
\* places as it was given candidates.
C4_AtMostMaxStops ==
    pc \notin {"dedup", "select"} =>
        Len(selected) <= MAX_STOPS /\ Len(selected) <= Len(dedup)

\* pick_candidates has returned MAX_STOPS places out of more candidates,
\* the coverage pass having picked more than MAX_STOPS of them.
C4_Witness ==
    /\ pc = "order"
    /\ Len(dedup) > MAX_STOPS
    /\ Len(selected) = MAX_STOPS
    /\ Len(CoveragePlaces(ShortlistPool(dedup, tags, StartPoint), tags)) > MAX_STOPS

\* C5 as stated: every requested tag that a place of the shortlist pool
\* carries is carried by a place pick_candidates returns, however many
\* distinct tags are requested.
C5_EveryPoolTagSelected ==
    pc = "order" =>
        LET pool == ShortlistPool(dedup, tags, StartPoint)
        IN \A t \in Range(tags) :
              (\E k \in 1..Len(pool) : t \in Range(pool[k].place.tags))
              => \E k \in 1..Len(selected) : t \in Range(selected[k].tags)

\* C5, amended: when the coverage pass picks at most MAX_STOPS distinct
\* places, every requested tag that a place of the shortlist pool carries is
\* carried by a place pick_candidates returns.
C5_PoolTagsSelectedUpToMaxStops ==
    pc = "order" =>
        LET pool == ShortlistPool(dedup, tags, StartPoint)
        IN Len(CoveragePlaces(pool, tags)) <= MAX_STOPS =>
              \A t \in Range(tags) :
                 (\E k \in 1..Len(pool) : t \in Range(pool[k].place.tags))
                 => \E k \in 1..Len(selected) : t \in Range(selected[k].tags)

\* pick_candidates has returned for more than MAX_STOPS distinct requested
\* tags of which the coverage pass picked exactly MAX_STOPS places.
C5_Witness ==
    /\ pc = "order"
    /\ Cardinality(Range(tags)) > MAX_STOPS
    /\ Len(CoveragePlaces(ShortlistPool(dedup, tags, StartPoint), tags)) = MAX_STOPS

\* C6: no pass of _two_opt or _or_opt makes the route longer, a changed
\* route is shorter, and the route is never longer than the
\* nearest-neighbour route, which holds for the route order_by_nearest
\* returns.
C6_NeverLonger ==
    [][(pc \in {"two_opt", "or_opt"}) =>
         (LET nn_len == _route_len(nn, StartPoint[1], StartPoint[2])
              old_len == _route_len(best, StartPoint[1], StartPoint[2])
              new_len == _route_len(best', StartPoint[1], StartPoint[2])
          IN /\ old_len <= nn_len
             /\ new_len <= old_len
             /\ best' # best => new_len < old_len
             /\ pc' = "food" =>
                  _route_len(ordered', StartPoint[1], StartPoint[2]) <= nn_len)
      ]_vars

\* order_by_nearest has returned a route of three places or more that is
\* shorter than the nearest-neighbour route.
C6_Witness ==
    /\ pc = "food"
    /\ Len(nn) >= 3
    /\ Len(ordered) = Len(nn)
    /\ _route_len(ordered, StartPoint[1], StartPoint[2])
         < _route_len(nn, StartPoint[1], StartPoint[2])

\* C7: the nearest-neighbour route, the route after every pass of _two_opt
\* and _or_opt and the route order_by_nearest returns hold every input place
\* as many times as the input does, and no other place.
C7_Permutation ==
    LET Count(x, seq) == Cardinality({k \in 1..Len(seq) : seq[k] = x})
        IsPermutation(a, b) ==
            /\ Len(a) = Len(b)
            /\ \A x \in Range(a) \cup Range(b) : Count(x, a) = Count(x, b)
    IN /\ pc \in {"two_opt", "or_opt"} =>
            IsPermutation(nn, selected) /\ IsPermutation(best, selected)
       /\ pc = "food" => IsPermutation(ordered, selected)

\* _two_opt has returned a route of four places or more that differs from
\* the nearest-neighbour route.
C7_Witness ==
    /\ pc = "or_opt"
    /\ or_i = 0
    /\ Len(best) >= 4
    /\ best # nn

\* C8: the loops of _two_opt and _or_opt end. A pass of `while improved`
\* that calls for another pass has made the route shorter by a metre or
\* more, and a route length is never negative; a pass of the for loop of
\* _or_opt moves its index one place on through a route that keeps its
\* number of places.
C8_LoopsEnd ==
    [][/\ (pc = "two_opt" /\ pc' = "two_opt") =>
             /\ _route_len(best', StartPoint[1], StartPoint[2]) >= 0
             /\ improved' =>
                  _route_len(best', StartPoint[1], StartPoint[2])
                    < _route_len(best, StartPoint[1], StartPoint[2])
       /\ (pc = "or_opt" /\ pc' = "or_opt") =>
             /\ or_i' = or_i + 1
             /\ or_i' <= Len(best')
             /\ Len(best') = Len(best)
      ]_vars

\* The while loop of _two_opt has ended after more than one pass: a pass
\* accepted a move, and the pass after it accepted none.
C8_Witness ==
    /\ pc = "two_opt"
    /\ ~improved
    /\ best # nn

\* C9: build_route with no candidate place returns an empty stop list, 0
\* total minutes and the duration string "0min" ("0мин"), and its calendar
\* export raised no error.
C9_EmptyItinerary ==
    (places = <<>> /\ pc = "done") =>
        /\ result[1].stops = <<>>
        /\ result[1].total_minutes = 0
        /\ result[1].total_time_human = "0min"
        /\ result[1].ics # "ValueError"

\* build_route has returned for an empty candidate list.
C9_Witness == places = <<>> /\ pc = "done" /\ result # <<>>

\* C10 as stated: a second make_ics on the same stops, title, description
\* and tzid returns the payload of the first, whenever it is called.
C10_SamePayload == ics_again # "None" => ics_again = result[1].ics

\* C11 as stated: when the place provider fails during POST /plan (an error
\* of _request, or no API key), plan_trip does not let the failure out to
\* its caller.
C11_ProviderFailureAbsorbed ==
    (provider # <<>> /\ provider[1].kind \in ProviderFailures) =>
        raised \notin {"DgisError", "DgisAuthError", "DgisQuotaError"}

\* C13 as stated: a POST /plan request without user_location raises nothing
\* and so goes on to a plan from the city centre.
C13_PlanWithoutUserLocation ==
    (payload # <<>> /\ payload[1].user_location = <<>>) => raised = "None"

\* C12: make_ics given a stop whose arrive or leave is no ISO datetime
\* string raises the "Invalid ISO datetime" ValueError and returns no
\* payload, so no other time stands in for the malformed one.
C12_MalformedTimeRaises ==
    (/\ pc \in {"returned", "raised"}
     /\ \E k \in 1..Len(ics_stops) :
            \/ ics_stops[k].arrive \in MalformedTimes
            \/ ics_stops[k].leave \in MalformedTimes)
    => (pc = "raised" /\ raised = "ValueError" /\ ics_out = "None")

\* make_ics raised on a second stop whose leave is malformed, after a
\* first stop that is well-formed.
C12_Witness ==
    /\ pc = "raised"
    /\ raised = "ValueError"
    /\ Len(ics_stops) = 2
    /\ ics_stops[1].arrive \notin MalformedTimes
    /\ ics_stops[1].leave \notin MalformedTimes
    /\ ics_stops[2].arrive \notin MalformedTimes
    /\ ics_stops[2].leave \in MalformedTimes

\* The position of the first newline of s at or after from, Len(s) + 1
\* when there is none.
LineEnd(s, from) ==
    CHOOSE k \in from..(Len(s) + 1) :
        /\ k = Len(s) + 1 \/ SubSeq(s, k, k) = "\n"
        /\ \A m \in from..(k - 1) : SubSeq(s, m, m) # "\n"

\* The physical lines of the string s from position from on: the pieces
\* between its newlines.
RECURSIVE PhysicalLines(_, _)
PhysicalLines(s, from) ==
    IF from > Len(s) THEN <<>>
    ELSE LET end == LineEnd(s, from)
         IN <<SubSeq(s, from, end - 1)>> \o PhysicalLines(s, end + 1)

\* The text after the property name of a content line, "?" when the line
\* does not start with the name.
ValueOf(line, name) ==
    IF Len(line) >= Len(name) /\ SubSeq(line, 1, Len(name)) = name
    THEN SubSeq(line, Len(name) + 1, Len(line))
    ELSE "?"

\* The string s from position k on is escaped text: a backslash is followed
\* by a backslash, a semicolon, a comma or the letter n, and no semicolon
\* or comma stands without a backslash before it.
RECURSIVE WellEscaped(_, _)
WellEscaped(s, k) ==
    IF k > Len(s) THEN TRUE
    ELSE IF SubSeq(s, k, k) = "\\"
         THEN /\ k < Len(s)
              /\ SubSeq(s, k + 1, k + 1) \in {"\\", ";", ",", "n"}
              /\ WellEscaped(s, k + 2)
         ELSE /\ SubSeq(s, k, k) \notin {";", ",", "\n"}
              /\ WellEscaped(s, k + 1)

\* The source text an escaped string stands for.
RECURSIVE Unescaped(_, _)
Unescaped(s, k) ==
    IF k > Len(s) THEN ""
    ELSE IF SubSeq(s, k, k) = "\\" /\ k < Len(s)
         THEN (IF SubSeq(s, k + 1, k + 1) = "n" THEN "\n"
               ELSE SubSeq(s, k + 1, k + 1)) \o Unescaped(s, k + 2)
         ELSE SubSeq(s, k, k) \o Unescaped(s, k + 1)

\* The value of the content line is the escaped form of the source text.
Escapes(value, source) ==
    /\ WellEscaped(value, 1)
    /\ Unescaped(value, 1) = Concat(source)

\* C16: in a payload make_ics returned, the calendar name, every SUMMARY
\* and every DESCRIPTION carry each backslash, semicolon and comma of the
\* source text behind a backslash and hold no raw newline: the payload has
\* the 14 header lines, the empty line, 8 lines for each stop and the
\* footer, whatever the texts contain.
C16_TextFieldsEscaped ==
    (pc = "returned") =>
        LET lines == PhysicalLines(ics_out, 1)
            n == Len(ics_stops)
        IN /\ Len(lines) = 16 + 8 * n
           /\ Escapes(ValueOf(lines[4], "X-WR-CALNAME:"), ics_title)
           /\ lines[16 + 8 * n] = ICS_FOOTER
           /\ \A e \in 1..n :
                  LET summary == ValueOf(lines[13 + 8 * e], "SUMMARY:")
                      detail == ValueOf(lines[14 + 8 * e], "DESCRIPTION:")
                      stop == ics_stops[e]
                  IN /\ Escapes(summary, <<ToString(e), ". ">> \o stop.name)
                     /\ WellEscaped(detail, 1)
                     /\ ics_description # <<>>
                            => Escapes(detail, ics_description)
                     /\ (ics_description = <<>> /\ stop.description # <<>>)
                            => Escapes(detail, stop.description)

\* A payload for a title with reserved characters and two stops, one named
\* with a semicolon and tagged twice, one with a newline in its name and a
\* description of its own with every reserved character.
C16_Witness ==
    /\ pc = "returned"
    /\ ics_out # "None"
    /\ ics_description = <<>>
    /\ "\n" \in Range(ics_title)
    /\ Len(ics_stops) = 2
    /\ ics_stops[1].name = <<"P", ";", "2">>
    /\ ics_stops[2].name = <<"N", "\n", "7">>
    /\ "\\" \in Range(ics_stops[2].description)

C15_EveryHopAtLeastEightMinutes ==
    result # <<>> =>
        LET s == result[1].stops
        IN /\ \A k \in 1..Len(s) : s[k].travel_min_from_prev >= 8
           /\ s # <<>> => _parse_iso(s[1].arrive) >= 10 * 60 + 8
           /\ \A k \in 1..(Len(s) - 1) :
                  _parse_iso(s[k + 1].arrive) >= _parse_iso(s[k].leave) + 8

\* A returned itinerary with two colocated stops in a row: the second is
\* 0 km from the first and is reached exactly 8 minutes after it was left.
C15_Witness ==
    /\ result # <<>>
    /\ \E k \in 1..(Len(result[1].stops) - 1) :
           LET a == result[1].stops[k]
               b == result[1].stops[k + 1]
           IN /\ a.lat = b.lat /\ a.lon = b.lon
              /\ b.distance_km_from_prev = 0
              /\ b.travel_min_from_prev = 8
              /\ _parse_iso(b.arrive) = _parse_iso(a.leave) + 8

\* C18: when the route order_by_nearest returned has four stops or more,
\* none of them tagged food or coffee, and the deduplicated candidates hold
\* a food or coffee place outside the route, the route the schedule loop
\* starts with holds a food or coffee place.
C18_FoodPlaceInserted ==
    (/\ pc = "schedule"
     /\ idx = 0
     /\ Len(best) >= 4
     /\ \A k \in 1..Len(best) : ~IsFood(best[k])
     /\ \E k \in 1..Len(dedup) : IsFood(dedup[k]) /\ ~InList(dedup[k], best))
    => \E k \in 1..Len(ordered) : IsFood(ordered[k])

\* The route with the places at positions a..b (1-based) in reverse order.
SegmentReversed(route, a, b) ==
    Take(route, a - 1) \o Reverse(SubSeq(route, a, b)) \o Drop(route, b)

\* Reversing the places a..b of the route does not make it shorter.
NoGainFromReversal(route, a, b) ==
    ~Improves(_route_len(SegmentReversed(route, a, b), StartPoint[1], StartPoint[2]),
              _route_len(route, StartPoint[1], StartPoint[2]))

\* C19: the route _two_opt returns is a local optimum for segment
\* reversal: reversing the places between any two positions, the segments
\* that begin at the first stop included, gives no shorter route.
C19_LocalOptimumForReversal ==
    (pc = "or_opt" /\ or_i = 0) =>
        \A a \in 1..Len(best) : \A b \in (a + 1)..Len(best) :
            NoGainFromReversal(best, a, b)

\* C20: when the for loop of _or_opt ends, every place of the route has
\* been taken as the node to relocate exactly once, also after a relocation
\* was accepted earlier in the same sweep.
C20_EveryPlaceTakenOnce ==
    (pc = "or_opt" /\ or_i >= Len(best)) =>
        \A k \in 1..Len(best) :
            Cardinality({t \in 1..Len(or_taken) : or_taken[t] = best[k].id}) = 1

\* The tags answer is empty once normalize_tags has dropped its blanks.
BlankAnswer(k) ==
    asked[k] = "tags" /\ normalize_tags(answers[k][1]) = <<>>

\* C17 as stated: with the LLM disabled, a client that starts with empty
\* preferences and supplies a non-empty value for each field it is asked
\* for is asked for date, tags, budget and pace, in this order and each
\* exactly once, and then receives mode=ready; mode=ready comes with a
\* value for each of the four fields.
C17_EachFieldAskedOnce ==
    /\ \E n \in 0..4 : asked = Take(<<"date", "tags", "budget", "pace">>, n)
    /\ response.mode = "ready" =>
           /\ asked = <<"date", "tags", "budget", "pace">>
           /\ response.prefs.date # "" /\ response.prefs.tags # <<>>
           /\ response.prefs.budget # "" /\ response.prefs.pace # ""

\* C17 amended: the first question is for the date; a tags answer that
\* normalize_tags leaves empty is followed by the question for the tags
\* again, any other answer by the question for the next field of date,
\* tags, budget, pace; mode=ready comes after the answer for the pace and
\* with a value for each of the four fields.
C17_AskedInOrderUntilValuesStay ==
    /\ asked # <<>> => asked[1] = "date"
    /\ Len(answers) \in {Len(asked) - 1, Len(asked)}
    /\ \A k \in 1..(Len(asked) - 1) :
           \/ BlankAnswer(k) /\ asked[k + 1] = "tags"
           \/ /\ ~BlankAnswer(k)
              /\ <<asked[k], asked[k + 1]>> \in
                     {<<"date", "tags">>, <<"tags", "budget">>, <<"budget", "pace">>}
    /\ response.mode = "ready" =>
           /\ asked # <<>> /\ asked[Len(asked)] = "pace"
           /\ Len(answers) = Len(asked)
           /\ response.prefs.date # "" /\ response.prefs.tags # <<>>
           /\ response.prefs.budget # "" /\ response.prefs.pace # ""

\* mode=ready after the tags were asked for twice: the first tags answer
\* was a blank tag, the second was kept.
C17_Witness ==
    /\ response.mode = "ready"
    /\ asked = <<"date", "tags", "tags", "budget", "pace">>
    /\ answers[2] = <<<<" ">>>>
    /\ response.prefs.tags = <<"park", "food">>

\* The arrival at the k-th returned stop after the wait for its opening and
\* before any lunch padding: the departure from the stop before it (10:00
\* for the first) plus the travel, aligned to the hours of the place.
AlignedArrival(k) ==
    LET s == result[1].stops
        from == IF k = 1 THEN DEFAULT_START_TIME ELSE _parse_iso(s[k - 1].leave)
    IN _align_to_opening(from + s[k].travel_min_from_prev, _parse_hours(ordered[k]))

\* The k-th returned stop arrives 10 minutes after its aligned arrival.
Padded(k) == _parse_iso(result[1].stops[k].arrive) = AlignedArrival(k) + 10

\* The aligned arrival of the k-th returned stop is 3.5 hours or more after
\* the 10:00 start.
CrossesLunch(k) == AlignedArrival(k) - DEFAULT_START_TIME >= LUNCH_INSERT_AFTER_HOURS

\* C21: in a returned itinerary the 10-minute lunch padding is added to the
\* arrival of at most one stop, however many stops arrive 3.5 hours or
\* more after the start.
C21_PaddingAtMostOnce ==
    result # <<>> =>
        /\ \A k \in 1..Len(result[1].stops) :
               _parse_iso(result[1].stops[k].arrive) - AlignedArrival(k) \in {0, 10}
        /\ Cardinality({k \in 1..Len(result[1].stops) : Padded(k)}) <= 1

\* A returned itinerary in which three stops without a food tag arrive 3.5
\* hours or more after the start and the first of them is padded.
C21_Witness ==
    /\ result # <<>>
    /\ \E k \in 1..(Len(result[1].stops) - 2) :
           /\ Padded(k)
           /\ \A j \in k..(k + 2) : CrossesLunch(j) /\ ~IsFood(ordered[j])

\* C22 as stated: the padding goes to the first stop that crosses the
\* threshold and has no food tag; a food-tagged stop that crosses earlier
\* does not use it up.
C22_FirstStopWithoutFoodPadded ==
    result # <<>> =>
        \A k \in 1..Len(result[1].stops) :
            Padded(k) <=>
                /\ CrossesLunch(k) /\ ~IsFood(ordered[k])
                /\ \A j \in 1..(k - 1) : ~(CrossesLunch(j) /\ ~IsFood(ordered[j]))

\* C22 amended: the padding goes to the first stop that crosses the
\* threshold, and only when that stop has no food tag; when the first stop
\* to cross is food-tagged, no stop of the itinerary is padded.
C22_FirstCrossingStopPaddedUnlessFood ==
    result # <<>> =>
        \A k \in 1..Len(result[1].stops) :
            Padded(k) <=>
                /\ CrossesLunch(k) /\ ~IsFood(ordered[k])
                /\ \A j \in 1..(k - 1) : ~CrossesLunch(j)

\* A returned itinerary in which a food-tagged stop is the first to cross
\* the threshold, a stop without a food tag follows it, and no stop is
\* padded.
C22_Witness ==
    /\ result # <<>>
    /\ \E k \in 1..(Len(result[1].stops) - 1) :
           /\ CrossesLunch(k) /\ IsFood(ordered[k])
           /\ \A j \in 1..(k - 1) : ~CrossesLunch(j)
           /\ ~IsFood(ordered[k + 1])
    /\ \A k \in 1..Len(result[1].stops) : ~Padded(k)

\* The parsed intervals of the k-th place of the route that end at or after
\* the tentative arrival at it, on the day of that arrival.
OpenAtOrAfter(k) ==
    LET slots == _parse_hours(ordered[k])
        t == arrivals[k].tentative
    IN {i \in 1..Len(slots) : t <= (t \div 1440) * 1440 + slots[i][2]}

\* C23: for each place the schedule loop looks at, the arrival is not moved
\* when the place has no parsable interval or none that ends at or after
\* the tentative arrival; otherwise it is the later of the tentative
\* arrival and the start of the first such interval. It is never earlier
\* than the tentative arrival, and with no day end every place of the
\* route is emitted, whatever its hours.
C23_AlignedToFirstOpenInterval ==
    /\ \A k \in 1..Len(arrivals) :
           LET slots == _parse_hours(ordered[k])
               t == arrivals[k].tentative
               a == arrivals[k].aligned
               open == OpenAtOrAfter(k)
           IN /\ a >= t
              /\ open = {} => a = t
              /\ open # {} =>
                     LET first == CHOOSE i \in open : \A j \in open : i <= j
                         start == (t \div 1440) * 1440 + slots[first][1]
                     IN a = IF t >= start THEN t ELSE start
    /\ (result # <<>> /\ day_end = <<>>) => Len(result[1].stops) = Len(ordered)

\* A returned itinerary with no day end in which one place made the
\* visitor wait for its second interval, one was reached inside its
\* interval, and one was reached after its last interval had ended.
C23_Witness ==
    /\ result # <<>>
    /\ day_end = <<>>
    /\ \E k \in 1..Len(arrivals) :
           /\ 1 \notin OpenAtOrAfter(k) /\ 2 \in OpenAtOrAfter(k)
           /\ arrivals[k].aligned > arrivals[k].tentative
    /\ \E k \in 1..Len(arrivals) :
           /\ OpenAtOrAfter(k) # {}
           /\ arrivals[k].aligned = arrivals[k].tentative
    /\ \E k \in 1..Len(arrivals) :
           /\ _parse_hours(ordered[k]) # <<>>
           /\ OpenAtOrAfter(k) = {}

\* C24: the list pick_candidates returns holds no two places of the same
\* grid cell, the places taken by the coverage pass included.
C24_OnePlacePerCell ==
    (pc = "order") =>
        \A i \in 1..Len(selected) : \A j \in (i + 1)..Len(selected) :
            _cluster_key(selected[i].lat, selected[i].lon)
                # _cluster_key(selected[j].lat, selected[j].lon)

\* The travel and visit minutes of the returned stops from..len(stops); the
\* visit of a stop is the duration of its place.
RECURSIVE StopMinutesFrom(_)
StopMinutesFrom(from) ==
    IF from > Len(result[1].stops) THEN 0
    ELSE result[1].stops[from].travel_min_from_prev
         + _duration_for_place(ordered[from]) + StopMinutesFrom(from + 1)

\* C25: total_minutes of the result is the sum, over the returned stops, of
\* travel_min_from_prev and the visit duration of the place, and every
\* visit lasts from the arrival to the departure of its stop; a place
\* dropped at the day end adds nothing.
C25_TotalIsSumOverStops ==
    result # <<>> =>
        /\ result[1].total_minutes = StopMinutesFrom(1)
        /\ \A k \in 1..Len(result[1].stops) :
               _parse_iso(result[1].stops[k].leave)
                   - _parse_iso(result[1].stops[k].arrive)
                   = _duration_for_place(ordered[k])

\* A returned itinerary of two stops or more that ends before its route
\* does: the next place was dropped at the day end.
C25_Witness ==
    /\ result # <<>>
    /\ Len(result[1].stops) >= 2
    /\ Len(result[1].stops) < Len(ordered)
    /\ result[1].total_minutes > 0

\* The UID line of the e-th event of a payload of make_ics.
UidLine(lines, e) == lines[9 + 8 * e]

\* C29: in the calendar of a returned itinerary the UID values of the
\* events are pairwise distinct, and the arrival times they are written
\* from strictly increase.
C29_UidsDistinct ==
    (pc = "done" /\ clock = 0 /\ ics_again = "None") =>
        LET lines == PhysicalLines(result[1].ics, 1)
            s == result[1].stops
        IN /\ \A e \in 1..Len(s) : ValueOf(UidLine(lines, e), "UID:") # "?"
           /\ \A e \in 1..Len(s) : \A f \in (e + 1)..Len(s) :
                  /\ UidLine(lines, e) # UidLine(lines, f)
                  /\ _parse_iso(s[e].arrive) < _parse_iso(s[f].arrive)

\* A calendar of seven events.
C29_Witness ==
    /\ pc = "done" /\ clock = 0 /\ ics_again = "None"
    /\ Len(result[1].stops) = MAX_STOPS
    /\ ValueOf(UidLine(PhysicalLines(result[1].ics, 1), MAX_STOPS), "UID:") # "?"

\* The minutes the k-th returned stop arrives after the departure from the
\* stop before it plus the travel: the wait for the opening and the lunch
\* padding.
RECURSIVE IdleMinutesFrom(_)
IdleMinutesFrom(k) ==
    IF k > Len(result[1].stops) THEN 0
    ELSE (_parse_iso(result[1].stops[k].arrive) - arrivals[k].tentative)
         + IdleMinutesFrom(k + 1)

\* C30: total_minutes of a returned itinerary with stops never exceeds the
\* minutes from the 10:00 start to the departure from the last stop; the
\* difference is the time waited for openings plus the lunch padding, none
\* of which is negative.
C30_TotalWithinElapsed ==
    (result # <<>> /\ result[1].stops # <<>>) =>
        LET s == result[1].stops
            elapsed == _parse_iso(s[Len(s)].leave) - DEFAULT_START_TIME
        IN /\ result[1].total_minutes <= elapsed
           /\ elapsed - result[1].total_minutes = IdleMinutesFrom(1)
           /\ \A k \in 1..Len(s) :
                  /\ arrivals[k].aligned >= arrivals[k].tentative
                  /\ _parse_iso(s[k].arrive) - arrivals[k].aligned \in {0, 10}

\* A returned itinerary with a wait for an opening at one stop and the
\* lunch padding at another: the total is below the elapsed time.
C30_Witness ==
    /\ result # <<>>
    /\ \E k \in 1..Len(result[1].stops) :
           arrivals[k].aligned > arrivals[k].tentative
    /\ \E k \in 1..Len(result[1].stops) :
           _parse_iso(result[1].stops[k].arrive) = arrivals[k].aligned + 10
    /\ result[1].total_minutes
           < _parse_iso(result[1].stops[Len(result[1].stops)].leave) - DEFAULT_START_TIME

\* The replies after which the code makes a further attempt.
Retryable(reply) ==
    \/ reply.kind = "status" /\ reply.code \in {429, 500, 502, 503, 504}
    \/ reply.kind = "body" /\ reply.code = 429
    \/ reply.kind = "transport"

\* The replies that are an authorisation failure.
AuthFailure(reply) ==
    \/ reply.kind = "status" /\ reply.code \in {401, 403}
    \/ reply.kind = "body" /\ reply.code = 403

\* C26: one call of _request makes at most 3 HTTP attempts; every attempt
\* but the last one met HTTP 429, HTTP 500/502/503/504, a meta code 429 or
\* a transport error; an HTTP 401/403 or a meta code 403 is the last
\* attempt and ends the call with DgisAuthError; after the third attempt
\* the call has returned items or raised.
C26_AtMostThreeAttempts ==
    /\ Len(req_log) <= 3
    /\ \A k \in 1..(Len(req_log) - 1) : Retryable(req_log[k])
    /\ \A k \in 1..Len(req_log) :
           AuthFailure(req_log[k])
               => (k = Len(req_log) /\ pc = "raised" /\ raised = "DgisAuthError")
    /\ (pc = "request") => (req_attempt = Len(req_log) /\ req_attempt <= retries)
    /\ (Len(req_log) = 3) => (pc \in {"returned", "raised"})
    /\ (pc = "returned") => (req_result \in {"items", "empty"} /\ raised = "None")
    /\ (pc = "raised") => (raised # "None" /\ req_result = "None")

\* The call ended with DgisQuotaError on its third attempt, after a
\* transport error and an HTTP 503.
C26_Witness ==
    /\ pc = "raised"
    /\ raised = "DgisQuotaError"
    /\ Len(req_log) = 3
    /\ req_log[1].kind = "transport"
    /\ req_log[2] = [kind |-> "status", code |-> 503]
    /\ req_log[3].code = 429

\* C27: the cache_get just made returned a value only if that value is the
\* one last written for the key and its expiry lies after the current time,
\* whichever layer it came from; it returned the value whenever what was
\* last written for the key has not expired; and it answered from the
\* memory layer whenever that layer held an entry that has not expired.
C27_NeverExpiredAlwaysLive ==
    cache_last # <<>> =>
        LET got == cache_last[1]
            written == cache_stored[got.key]
            live == written # <<>> /\ written[1].expires_at > cache_now
        IN /\ got.value # <<>> => (live /\ got.value = <<written[1].value>>)
           /\ live => got.value = <<written[1].value>>
           /\ got.layer \in {"memory", "disk"} <=> got.value # <<>>
           /\ got.layer = "memory"
                  <=> (/\ got.memory_before # <<>>
                       /\ got.memory_before[1].expires_at > cache_now)

\* A value written with ttl 2 is read back from the memory layer one second
\* before it expires, the clock having advanced since the process started.
C27_Witness ==
    /\ cache_last # <<>>
    /\ cache_last[1].layer = "memory"
    /\ cache_last[1].value = <<"a">>
    /\ cache_now >= 2
    /\ cache_stored[cache_last[1].key] = <<CacheEntry(cache_now + 1, "a")>>
    /\ \E k \in CacheKeys : cache_disk[k] # <<>> /\ cache_memory[k] = <<>>

\* C28: a /cancel message that met the dialogue in the date, tags or budget
\* state was taken by cmd_cancel and left the dialogue state cleared; it
\* was not taken as a date, a tag list or a budget.
C28_CancelTakenByCmdCancel ==
    (/\ bot_last # <<>>
     /\ IsCommand(bot_last[1].text, "cancel")
     /\ bot_last[1].state \in {"date", "tags", "budget"})
    => (/\ bot_last[1].handler = "cmd_cancel"
        /\ bot_state = "None"
        /\ bot_data = NoBotData)

====
